---- MODULE Spec2Model ----
(***************************************************************************)
(* Model of the obsync-pg plugin core: the Event Coalescer (Debouncer),    *)
(* the Sync State Store (StateTracker) and the Reconciliation Engine       *)
(* (SyncEngine) with its asynchronous tasks, over an abstract vault and an *)
(* abstract remote store with the two tables vault_notes and               *)
(* vault_attachments.                                                      *)
(*                                                                         *)
(* JavaScript runs the engine single-threaded: code between two awaits is  *)
(* one atomic action of the model, and every await is a point where other  *)
(* tasks may run.  A remote write is two actions: the statement taking     *)
(* effect in the remote store, and the continuation of the awaiting task.  *)
(***************************************************************************)
EXTENDS Integers, Sequences, FiniteSets, TLC

(***************************************************************************)
(* Bounds of the model.                                                    *)
(***************************************************************************)
MaxAdds == 3          \* add() calls made on a stand-alone coalescer
MaxListeners == 2     \* listeners registered on a stand-alone coalescer
SyncEvents == 2       \* SpecSync: host file events (create, modify, delete)
SyncFails == 1        \* SpecSync: remote calls that fail
PassEvents == 2       \* SpecReconcile: host file events
PassFails == 1        \* SpecReconcile: remote calls that fail
PassStarts == 1       \* SpecReconcile: fullReconcile calls that start a pass
BatchEvents == 1      \* SpecBatch: host file events
BatchFails == 1       \* SpecBatch: remote calls and local writes that fail
BatchStarts == 1      \* SpecBatch: fullReconcile / pullFromDB calls that start a pass
SerialEvents == 2     \* SpecSerial: host file events
SerialFails == 1      \* SpecSerial: remote calls that fail
FlagStarts == 2       \* SpecFlag: fullReconcile / pullFromDB calls that start a pass
FlagEvents == 1       \* SpecFlag: host file events
FlagFails == 1        \* SpecFlag: remote calls and local writes that fail
RetryCeiling == 2     \* SpecRetry: settings.retryAttempts
RetryEvents == 2      \* SpecRetry: host file events
RetryFails == 3       \* SpecRetry: remote calls that fail
RetryTicks == 2       \* SpecRetry: ticks of the retry interval
IgnoreEvents == 1     \* SpecIgnore: host file events
IgnoreFails == 1      \* SpecIgnore: remote calls and local writes that fail
IgnoreStarts == 1     \* SpecIgnore: fullReconcile / pullFromDB calls that start a pass
PullEvents == 2       \* SpecPull: host file events
PullFails == 1        \* SpecPull: remote calls and local writes that fail
PullStarts == 1       \* SpecPull: pullFromDB calls that start a pull
DrainCeiling == 1     \* SpecDrain: settings.retryAttempts
DrainEvents == 1      \* SpecDrain: host file events
DrainFails == 2       \* SpecDrain: remote calls that fail
DrainTicks == 2       \* SpecDrain: ticks of the retry interval
StoreOps == 4         \* SpecStore, SpecLoad: calls on the StateTracker
ReleaseStarts == 2    \* SpecRelease: fullReconcile and pullFromDB calls
ReleaseFails == 1     \* SpecRelease: remote calls and file writes that fail
Delay == 2            \* SpecTimer: the delay of the coalescer, in units of time
TimerAdds == 2        \* SpecTimer: add() calls
UnloadEvents == 2     \* SpecUnload: host file events
SaveOps == 3          \* SpecSave: writes of the store and saves
MaxTags == 2          \* SpecMerge: labels in each list given to mergeTags
PluginOps == 6        \* SpecPlugin: steps of the plugin's connection and commands
StampEvents == 1      \* SpecStamp: host file events
StampFails == 1       \* SpecStamp: remote calls and local writes that fail
StampStarts == 1      \* SpecStamp: fullReconcile / pullFromDB calls that start a pass
StampTicks == 1       \* SpecStamp: ticks of the retry interval

(***************************************************************************)
(* Paths, event kinds, contents.                                           *)
(***************************************************************************)
\* A path is <<basename, extension>>: "a.md" is a Note, "b.png" an Attachment.
NotePath == <<"a", "md">>
AttPath == <<"b", "png">>
Paths == {NotePath, AttPath}

\* enum EventType
EventType == {"CREATE", "MODIFY", "DELETE", "RENAME"}
NoEvent == "none"

\* settings.maxBinarySizeMB (DEFAULT_SETTINGS)
maxBinarySizeMB == 50
\* A file content is a number c, and the size of a file with content c is
\* c * maxBinarySizeMB MB: content 1 is at the size limit, content 2 over it.
Contents == 1..2
Absent == 0                         \* no file at the path

\* hashContent / hashArrayBuffer: SHA-256, modelled as an injective function
hashContent(c) == 10 + c
NoHash == 0
Hashes == {hashContent(c) : c \in Contents}
\* the raw content stored in the remote row with content_hash h
RawContent(h) == h - 10

NoRetry == -1
NoMap == [p \in Paths |-> NoHash]

VARIABLES
  vault,       \* the local tree: path -> content, or Absent
  dbNotes,     \* remote table vault_notes: path -> content_hash, or NoHash
  dbAtts,      \* remote table vault_attachments: path -> content_hash, or NoHash
  files,       \* StateTracker.state.files: path -> recorded hash, or NoHash
  lastFullSync,\* StateTracker.state.lastFullSync: 0 is null, else the number of times set
  dirty,       \* StateTracker.dirty
  retryQueue,  \* SyncEngine.retryQueue: path -> attempt count, or NoRetry
  isRunning,   \* SyncEngine.isRunning
  tasks,       \* the handleFileEvent calls in flight
  passes,      \* the fullReconcile / pullFromDB calls in flight, by slot
  eventsLeft,  \* host events still to come (bound of the model)
  failsLeft,   \* remote calls that will still fail (bound of the model)
  passesLeft,  \* reconciliation calls still to come (bound of the model)
  landSeq,     \* history: per path, emission number of the task whose remote write landed last
  recSeq,      \* history: per path, emission number of the task that last wrote the Local Sync Record
  okSince,     \* history: per path, the hash the last upsert sync that returned normally
               \* found or recorded; NoHash once the content changed or the record was dropped
  events,      \* Debouncer.events: path -> pending kind (its timer is armed)
  stopped,     \* Debouncer.stopped
  callbacks,   \* Debouncer.callbacks: sequence of listeners
  burst,       \* history: kinds added to the pending entry of a path
  emitted,     \* history: per path, the events emitted so far (kind, and the adds merged)
  received,    \* history: per listener and path, the kinds it was invoked with
  addsLeft,    \* direct add() calls still to come (bound of the model)
  settings,    \* SyncEngine.settings: ignorePatterns (the paths they match), retryAttempts
  retries,     \* the retryFailed calls in flight, by slot
  ticksLeft,   \* retry interval ticks still to come (bound of the model)
  failedKind,  \* history: per path, the sync whose failure last set its Retry Entry to 0
  thrown,      \* history: the listeners that have thrown in an emission (SpecThrow)
  stamps,      \* StateTracker.state.files: path -> the times and size of its record
               \* (kept for a StateTracker on its own; the engine's syncs leave it alone)
  blob,        \* the serialized state the host holds (plugin data)
  opsLeft,     \* calls on a stand-alone StateTracker still to come (bound of the model)
  plugin,      \* ObsyncPgPlugin: its db and engine fields, and its last entry point call
  tagRun,      \* a mergeTags call: its arguments and its result
  timers       \* Debouncer: per path, the time left on its timer and the time since
               \* its last add (counted in SpecTimer; elsewhere a pending entry's
               \* timer may expire at any moment)

coalescerVars == <<events, stopped, callbacks, burst, emitted, received, addsLeft,
                   thrown>>
storeVars == <<files, lastFullSync, dirty>>
remoteVars == <<dbNotes, dbAtts>>
engineVars == <<vault, dbNotes, dbAtts, files, lastFullSync, dirty, retryQueue,
                isRunning, tasks, passes, eventsLeft, failsLeft, passesLeft,
                landSeq, recSeq, okSince>>
\* the components modelled on their own
aloneVars == <<stamps, blob, opsLeft, plugin, tagRun, timers>>
runVars == <<settings, retries, ticksLeft, aloneVars>>
retryVars == <<settings, retries, ticksLeft, failedKind, aloneVars>>
vars == <<vault, dbNotes, dbAtts, files, lastFullSync, dirty, retryQueue,
          isRunning, tasks, passes, eventsLeft, failsLeft, passesLeft,
          landSeq, recSeq, okSince,
          events, stopped, callbacks, burst, emitted, received, addsLeft,
          settings, retries, ticksLeft, failedKind, thrown,
          stamps, blob, opsLeft, plugin, tagRun, timers>>

(***************************************************************************)
(* StateTracker                                                            *)
(***************************************************************************)
\* needsSync that ignores the recorded hash
needsSync_Always(path, currentHash) == TRUE

\* StateTracker.needsSync(path, currentHash)
needsSync(path, currentHash) ==
  IF files[path] = NoHash THEN TRUE ELSE files[path] # currentHash

\* StateTracker.setFileState(path, state): the files map after the call
\* (the dirty flag is set, see OpDirty)
setFileState(f, path, hash) == [f EXCEPT ![path] = hash]

\* a removeFileState that leaves the record where it is
removeFileState_Keep(f, S) == f

\* StateTracker.removeFileState for every path of S: the files map after
removeFileState(f, S) == [p \in Paths |-> IF p \in S THEN NoHash ELSE f[p]]

(***************************************************************************)
(* StateTracker: the records in full, serialize and load                   *)
(***************************************************************************)
\* this.state.vaultPath, the tree identity of the store
VaultPath == "vault"

\* A Date is its time value: a number of Times, Epoch (1970-01-01), or
\* InvalidDate (the time value NaN)
Times == 1..2
Epoch == 0
InvalidDate == -1

\* the rest of a FileState beside its hash; NoStamp for a path with no record
NoStamp == [lastSynced |-> Epoch, lastModified |-> Epoch, sizeBytes |-> 0]
NoStamps == [p \in Paths |-> NoStamp]

\* The JSON values a date field can hold: an ISO date string, null, another
\* string
JNull == [t |-> "null", v |-> 0]
JIso(d) == [t |-> "iso", v |-> d]
JText == [t |-> "text", v |-> 0]

\* a toJSON that writes the date with the last digit of its time dropped
toJSON_Truncated(d) == IF d = InvalidDate THEN JNull ELSE JIso(d - (d % 2))

\* Date.prototype.toJSON, as JSON.stringify applies it: toISOString, and
\* null for an invalid date
toJSON(d) == IF d = InvalidDate THEN JNull ELSE JIso(d)

\* new Date(value) on a parsed JSON value
NewDate(j) ==
  CASE j.t = "iso" -> j.v
    [] j.t = "null" -> Epoch
    [] OTHER -> InvalidDate

\* An entry of "files" in the JSON text: an object, null, or no entry
NoEntry == [t |-> "absent", hash |-> NoHash, lastSynced |-> JNull,
            lastModified |-> JNull, sizeBytes |-> 0]
NullEntry == [NoEntry EXCEPT !.t = "null"]

\* The text the host holds: none, a text that does not parse, or the JSON
\* of a SyncState
NoBlob == [t |-> "none", vaultPath |-> "", lastFullSync |-> JNull,
           files |-> [p \in Paths |-> NoEntry]]
Unparseable == [NoBlob EXCEPT !.t = "unparseable"]

\* StateTracker.serialize(): JSON.stringify(this.state)
serialize ==
  [t |-> "json",
   vaultPath |-> VaultPath,
   lastFullSync |-> IF lastFullSync = 0 THEN JNull ELSE toJSON(lastFullSync),
   files |-> [p \in Paths |->
                IF files[p] = NoHash THEN NoEntry
                ELSE [t |-> "object", hash |-> files[p],
                      lastSynced |-> toJSON(stamps[p].lastSynced),
                      lastModified |-> toJSON(stamps[p].lastModified),
                      sizeBytes |-> stamps[p].sizeBytes]]]

\* StateTracker.load(json) replaces the state: the text parses, its
\* vaultPath is the store's, and no conversion of an entry throws (reading
\* a field of a null entry does; new Date never does)
Accepted(b) ==
  /\ b.t = "json"
  /\ b.vaultPath = VaultPath
  /\ \A p \in Paths : b.files[p].t # "null"

\* the state StateTracker.load builds from a text it accepts
LoadedSync(b) == IF b.lastFullSync.t = "null" THEN 0 ELSE NewDate(b.lastFullSync)
LoadedFiles(b) == [p \in Paths |-> b.files[p].hash]
LoadedStamps(b) ==
  [p \in Paths |->
     IF b.files[p].t = "absent" THEN NoStamp
     ELSE [lastSynced |-> NewDate(b.files[p].lastSynced),
           lastModified |-> NewDate(b.files[p].lastModified),
           sizeBytes |-> b.files[p].sizeBytes]]

\* StateTracker.load(json)
load(b) ==
  IF Accepted(b)
  THEN /\ files' = LoadedFiles(b)
       /\ stamps' = LoadedStamps(b)
       /\ lastFullSync' = LoadedSync(b)
  ELSE UNCHANGED <<files, stamps, lastFullSync>>

\* The texts that are not what serialize wrote: another tree's state, a
\* text that does not parse, a null file entry, a date field that holds no
\* date
Damaged(b) ==
  {[b EXCEPT !.vaultPath = "other"], Unparseable}
    \cup {[b EXCEPT !.files[p] = NullEntry] : p \in Paths}
    \cup {[b EXCEPT !.files[p].lastSynced = JText] :
             p \in {q \in Paths : b.files[q].t = "object"}}

(***************************************************************************)
(* StateTracker: the calls on a store of its own                           *)
(***************************************************************************)
\* everything but the store, the text and the budget
StoreOp ==
  /\ opsLeft > 0
  /\ opsLeft' = opsLeft - 1
  /\ UNCHANGED <<vault, dbNotes, dbAtts, retryQueue, isRunning, tasks, passes,
                 eventsLeft, failsLeft, passesLeft, landSeq, recSeq, okSince>>
  /\ UNCHANGED <<events, stopped, callbacks, burst, emitted, received, addsLeft, thrown>>
  /\ UNCHANGED <<settings, retries, ticksLeft, failedKind, plugin, tagRun, timers>>

\* setFileState(path, {hash, lastSynced, lastModified, sizeBytes})
StoreSetFileState(path, hash, synced, modified) ==
  /\ StoreOp
  /\ files' = setFileState(files, path, hash)
  /\ stamps' = [stamps EXCEPT ![path] =
                  [lastSynced |-> synced, lastModified |-> modified,
                   sizeBytes |-> RawContent(hash) * maxBinarySizeMB]]
  /\ dirty' = TRUE
  /\ UNCHANGED <<lastFullSync, blob>>

\* a removeFileState that does not mark the store
StoreRemoveFileState_Clean(path) ==
  /\ StoreOp
  /\ files' = removeFileState(files, {path})
  /\ stamps' = [p \in Paths |-> IF files'[p] = NoHash THEN NoStamp ELSE stamps[p]]
  /\ UNCHANGED <<dirty, lastFullSync, blob>>

\* removeFileState(path)
StoreRemoveFileState(path) ==
  /\ StoreOp
  /\ files' = removeFileState(files, {path})
  /\ stamps' = [p \in Paths |-> IF files'[p] = NoHash THEN NoStamp ELSE stamps[p]]
  /\ dirty' = TRUE
  /\ UNCHANGED <<lastFullSync, blob>>

\* setLastFullSync(time)
StoreSetLastFullSync(time) ==
  /\ StoreOp
  /\ lastFullSync' = time
  /\ dirty' = TRUE
  /\ UNCHANGED <<files, stamps, blob>>

\* clear()
StoreClear ==
  /\ StoreOp
  /\ files' = NoMap
  /\ stamps' = NoStamps
  /\ lastFullSync' = 0
  /\ dirty' = TRUE
  /\ UNCHANGED blob

\* markSaved()
StoreMarkSaved ==
  /\ StoreOp
  /\ dirty' = FALSE
  /\ UNCHANGED <<files, stamps, lastFullSync, blob>>

\* serialize(): the host keeps the text
StoreSerialize ==
  /\ StoreOp
  /\ blob' = serialize
  /\ UNCHANGED <<files, stamps, lastFullSync, dirty>>

\* load(json) of the text b
StoreLoad(b) ==
  /\ StoreOp
  /\ load(b)
  /\ UNCHANGED <<dirty, blob>>

(***************************************************************************)
(* parser: mergeTags                                                       *)
(*                                                                         *)
(* A label is a string, a sequence of characters; "P" is an upper-case     *)
(* letter, "p" its lower-case form, "i" and "t" lower-case letters and " " *)
(* white space.                                                            *)
(***************************************************************************)
Labels == {<<"P">>, <<"p">>, <<" ", "i">>, <<"i", " ">>, <<"t">>, <<" ">>, <<>>}

\* String.prototype.toLowerCase
toLowerCase(s) == [i \in 1..Len(s) |-> IF s[i] = "P" THEN "p" ELSE s[i]]

\* String.prototype.trim
RECURSIVE trimStart(_)
trimStart(s) == IF s # <<>> /\ Head(s) = " " THEN trimStart(Tail(s)) ELSE s
RECURSIVE trimEnd(_)
trimEnd(s) ==
  IF s # <<>> /\ s[Len(s)] = " " THEN trimEnd(SubSeq(s, 1, Len(s) - 1)) ELSE s
trim(s) == trimEnd(trimStart(s))

\* a normalisation that keeps the case of the label
normalized_KeepCase(tag) == trim(tag)

\* const normalized = tag.toLowerCase().trim()
normalized(tag) == trim(toLowerCase(tag))

\* One of the two loops of mergeTags over the list tags, from the set seen
\* and the list merged in acc
RECURSIVE mergeLoop(_, _)
mergeLoop(tags, acc) ==
  IF tags = <<>> THEN acc
  ELSE LET n == normalized(Head(tags))
       IN mergeLoop(Tail(tags),
                    IF n # <<>> /\ n \notin acc.seen
                    THEN [seen |-> acc.seen \cup {n}, merged |-> Append(acc.merged, n)]
                    ELSE acc)

\* mergeTags(frontmatterTags, inlineTags)
mergeTags(frontmatterTags, inlineTags) ==
  mergeLoop(inlineTags,
            mergeLoop(frontmatterTags, [seen |-> {}, merged |-> <<>>])).merged

\* a call of mergeTags on the two lists of tagRun
MergeTags ==
  /\ ~tagRun.done
  /\ tagRun' = [tagRun EXCEPT !.out = mergeTags(tagRun.meta, tagRun.inline),
                               !.done = TRUE]
  /\ UNCHANGED <<vault, dbNotes, dbAtts, retryQueue, isRunning, tasks, passes,
                 eventsLeft, failsLeft, passesLeft, landSeq, recSeq, okSince>>
  /\ UNCHANGED <<events, stopped, callbacks, burst, emitted, received, addsLeft, thrown>>
  /\ UNCHANGED <<settings, retries, ticksLeft, failedKind, plugin, opsLeft, timers>>
  /\ UNCHANGED <<files, stamps, lastFullSync, dirty, blob>>

(***************************************************************************)
(* ObsyncPgPlugin: the connection and the commands that need it            *)
(*                                                                         *)
(* plugin.db is this.db: "null", or a Database whose pool is not created   *)
(* yet ("new"), created with no connection made through it ("pool"), or    *)
(* tested ("connected").  plugin.busy is a connect() call in flight,       *)
(* plugin.engine is this.engine # null.  plugin.called, plugin.notice and  *)
(* plugin.remote are the last command called, the Notice it showed and     *)
(* whether it made a call on the remote store.  plugin.save is the         *)
(* saveState call in flight.  In onunload, plugin.db is "closing" while    *)
(* db.close() awaits pool.end(), and plugin.flushed (history) are the      *)
(* paths whose pending events its flush emitted.                           *)
(***************************************************************************)
PluginStep ==
  /\ opsLeft > 0
  /\ opsLeft' = opsLeft - 1
  /\ UNCHANGED <<vault, dbNotes, dbAtts, retryQueue, isRunning, tasks, passes,
                 eventsLeft, failsLeft, passesLeft, landSeq, recSeq, okSince>>
  /\ UNCHANGED <<events, stopped, callbacks, burst, emitted, received, addsLeft, thrown>>
  /\ UNCHANGED <<settings, retries, ticksLeft, failedKind, tagRun, timers>>
  /\ UNCHANGED <<files, stamps, lastFullSync, dirty, blob>>

\* connect(): this.db = new Database(settings), up to the first await of
\* Database.connect
PluginConnect ==
  /\ PluginStep
  /\ ~plugin.busy /\ plugin.db = "null" /\ ~plugin.engine
  /\ plugin' = [plugin EXCEPT !.db = "new", !.busy = TRUE]

\* Database.connect: this.pool = new Pool(config), up to the test connection
PluginPool ==
  /\ PluginStep
  /\ plugin.busy /\ plugin.db = "new"
  /\ plugin' = [plugin EXCEPT !.db = "pool"]

\* Database.connect: the test connection is made
PluginConnected ==
  /\ PluginStep
  /\ plugin.busy /\ plugin.db = "pool"
  /\ plugin' = [plugin EXCEPT !.db = "connected"]

\* connect(): the engine is created and started, the intervals are set
PluginEngine ==
  /\ PluginStep
  /\ plugin.busy /\ plugin.db = "connected"
  /\ plugin' = [plugin EXCEPT !.engine = TRUE, !.busy = FALSE,
                               !.notice = "Connected to database"]

\* Database.connect throws (the driver does not load, or the test connection
\* fails): connect() shows "Connection failed"; this.db and its pool stay
PluginConnectFail ==
  /\ PluginStep
  /\ plugin.busy /\ plugin.db \in {"new", "pool"}
  /\ plugin' = [plugin EXCEPT !.busy = FALSE, !.notice = "Connection failed"]

\* reconnect(), up to its call of connect: the engine is stopped and
\* dropped, the database closed and dropped
PluginReconnect ==
  /\ PluginStep
  /\ ~plugin.busy
  /\ plugin' = [plugin EXCEPT !.engine = FALSE, !.db = "null"]

\* syncNow()
PluginSyncNow ==
  /\ PluginStep
  /\ plugin' = [plugin EXCEPT
                  !.called = "syncNow",
                  !.notice = IF plugin.engine THEN "none" ELSE "Not connected to database",
                  !.remote = plugin.engine]

\* pullFromDB()
PluginPullFromDB ==
  /\ PluginStep
  /\ plugin' = [plugin EXCEPT
                  !.called = "pullFromDB",
                  !.notice = IF plugin.engine THEN "none" ELSE "Not connected to database",
                  !.remote = plugin.engine]

\* runMigrations(); ok is the outcome of the statements on the remote store
\* when they are attempted
PluginRunMigrations(ok) ==
  /\ PluginStep
  /\ plugin' = [plugin EXCEPT
                  !.called = "runMigrations",
                  !.notice =
                    CASE plugin.db = "null" -> "Not connected to database"
                      [] plugin.db = "new" -> "Migration failed - Database not connected"
                      [] OTHER -> IF ok THEN "Migrations completed"
                                  ELSE "Migration failed - remote error",
                  !.remote = plugin.db \in {"pool", "connected"}]

(***************************************************************************)
(* SyncEngine: the per-file operations                                     *)
(***************************************************************************)
\* file.extension === 'md' and path.endsWith('.md')
IsNote(path) == path[2] = "md"

\* DEFAULT_SETTINGS.ignorePatterns, each pattern as a path it matches: the
\* default patterns match none of Paths
ignorePatterns == {<<".obsidian", "json">>}
\* DEFAULT_SETTINGS.retryAttempts
retryAttempts == 3
\* SyncEngine.shouldIgnore
shouldIgnore(path) == path \in settings.ignorePatterns

\* adapter.stat(path)?.size || 0, in MB
StatSize(path) == IF vault[path] = Absent THEN 0 ELSE vault[path] * maxBinarySizeMB

\* The file operation a caller is suspended in: the path, the await it is
\* suspended at, and the hash it computed.
\*   "stat"      syncAttachment awaits adapter.stat
\*   "read"      syncNote awaits vault.read, syncAttachment awaits readBinary
\*   "upsert"    awaits db.upsertNote / db.upsertAttachment, not yet applied
\*   "upserted"  the upsert is applied, the continuation has not run
\*   "delete"    removeFile awaits db.deleteNote / db.deleteAttachment
\*   "deleted"   the delete is applied, the continuation has not run
\* and how it returned: "synced", "skipped" (needsSync false), "oversize",
\* "removed", or "threw".
OpPcs == {"stat", "read", "upsert", "upserted", "delete", "deleted",
          "synced", "skipped", "oversize", "removed", "threw"}
OpReturned == {"synced", "skipped", "oversize", "removed"}
Ops == [path : Paths, pc : OpPcs, hash : Hashes \cup {NoHash}]

\* syncNote(file) / syncAttachment(file) up to the first await
SyncStart(path) ==
  [path |-> path, pc |-> IF IsNote(path) THEN "read" ELSE "stat", hash |-> NoHash]

\* removeFile(path) up to its await
RemoveStart(path) == [path |-> path, pc |-> "delete", hash |-> NoHash]

\* syncAttachment after adapter.stat: skip the file when it is too large
OpStat(o, o2) ==
  /\ o.pc = "stat"
  /\ o2 = [o EXCEPT !.pc = IF StatSize(o.path) > maxBinarySizeMB
                            THEN "oversize" ELSE "read"]
  /\ UNCHANGED <<dbNotes, dbAtts, failsLeft>>

\* the hash check after the content is read
ReadOutcome(o) ==
  IF needsSync(o.path, hashContent(vault[o.path]))
  THEN [o EXCEPT !.pc = "upsert", !.hash = hashContent(vault[o.path])]
  ELSE [o EXCEPT !.pc = "skipped"]

\* syncNote after vault.read / syncAttachment after vault.readBinary: the
\* read of a file that is gone throws; (for a note, adapter.stat follows and
\* only supplies metadata)
OpRead(o, o2) ==
  /\ o.pc = "read"
  /\ o2 = IF vault[o.path] = Absent THEN [o EXCEPT !.pc = "threw"]
          ELSE ReadOutcome(o)
  /\ UNCHANGED <<dbNotes, dbAtts, failsLeft>>

\* Database.upsertNote / upsertAttachment takes effect
OpUpsertLand(o, o2) ==
  /\ o.pc = "upsert"
  /\ o2 = [o EXCEPT !.pc = "upserted"]
  /\ IF IsNote(o.path)
     THEN dbNotes' = [dbNotes EXCEPT ![o.path] = o.hash] /\ UNCHANGED dbAtts
     ELSE dbAtts' = [dbAtts EXCEPT ![o.path] = o.hash] /\ UNCHANGED dbNotes
  /\ UNCHANGED failsLeft

\* Database.upsertNote / upsertAttachment rejects
OpUpsertFail(o, o2) ==
  /\ o.pc = "upsert"
  /\ failsLeft > 0
  /\ failsLeft' = failsLeft - 1
  /\ o2 = [o EXCEPT !.pc = "threw"]
  /\ UNCHANGED <<dbNotes, dbAtts>>

\* syncNote / syncAttachment after the upsert: "Update state" (OpFiles)
OpUpsertCont(o, o2) ==
  /\ o.pc = "upserted"
  /\ o2 = [o EXCEPT !.pc = "synced"]
  /\ UNCHANGED <<dbNotes, dbAtts, failsLeft>>

\* Database.deleteNote / deleteAttachment takes effect
OpDeleteLand(o, o2) ==
  /\ o.pc = "delete"
  /\ o2 = [o EXCEPT !.pc = "deleted"]
  /\ IF IsNote(o.path)
     THEN dbNotes' = [dbNotes EXCEPT ![o.path] = NoHash] /\ UNCHANGED dbAtts
     ELSE dbAtts' = [dbAtts EXCEPT ![o.path] = NoHash] /\ UNCHANGED dbNotes
  /\ UNCHANGED failsLeft

\* a removeFile that catches the rejection and goes on
OpDeleteFail_Swallowed(o, o2) ==
  /\ o.pc = "delete"
  /\ failsLeft > 0
  /\ failsLeft' = failsLeft - 1
  /\ o2 = [o EXCEPT !.pc = "deleted"]
  /\ UNCHANGED <<dbNotes, dbAtts>>

\* Database.deleteNote / deleteAttachment rejects
OpDeleteFail(o, o2) ==
  /\ o.pc = "delete"
  /\ failsLeft > 0
  /\ failsLeft' = failsLeft - 1
  /\ o2 = [o EXCEPT !.pc = "threw"]
  /\ UNCHANGED <<dbNotes, dbAtts>>

\* removeFile after the delete: the record is dropped (OpFiles)
OpDeleteCont(o, o2) ==
  /\ o.pc = "deleted"
  /\ o2 = [o EXCEPT !.pc = "removed"]
  /\ UNCHANGED <<dbNotes, dbAtts, failsLeft>>

\* a store that also records the hash of an upsert that was rejected
OpFiles_OnThrow(o2) ==
  IF o2.pc = "synced" \/ (o2.pc = "threw" /\ o2.hash # NoHash)
  THEN setFileState(files, o2.path, o2.hash)
  ELSE IF o2.pc = "removed" THEN removeFileState(files, {o2.path})
  ELSE files

\* The store after a resumption that led to o2: setFileState when the upsert
\* returned, removeFileState when the delete returned; both set dirty.
OpFiles(o2) ==
  IF o2.pc = "synced" THEN setFileState(files, o2.path, o2.hash)
  ELSE IF o2.pc = "removed" THEN removeFileState(files, {o2.path})
  ELSE files
OpDirty(o2) == dirty \/ o2.pc \in {"synced", "removed"}

\* The pcs that can follow a pc, and the records a resumption can lead to
OpSucc(pc) ==
  CASE pc = "stat" -> {"oversize", "read"}
    [] pc = "read" -> {"threw", "skipped", "upsert"}
    [] pc = "upsert" -> {"upserted", "threw"}
    [] pc = "upserted" -> {"synced"}
    [] pc = "delete" -> {"deleted", "threw"}
    [] pc = "deleted" -> {"removed"}
    [] OTHER -> {}
OpNext(o) ==
  {[path |-> o.path, pc |-> q, hash |-> h] :
     q \in OpSucc(o.pc), h \in {o.hash, hashContent(vault[o.path])}}

\* One resumption of a suspended file operation
OpStep(o, o2) ==
  \/ OpStat(o, o2)
  \/ OpRead(o, o2)
  \/ OpUpsertLand(o, o2)
  \/ OpUpsertFail(o, o2)
  \/ OpUpsertCont(o, o2)
  \/ OpDeleteLand(o, o2)
  \/ OpDeleteFail(o, o2)
  \/ OpDeleteCont(o, o2)

(***************************************************************************)
(* SyncEngine.handleFileEvent                                              *)
(***************************************************************************)
\* handleFileEvent(event) -> syncFile up to the first await.  upsertFile
\* returns at once when no file is at the path or the path is ignored, and
\* syncFile does nothing for a kind other than Create, Modify, Delete: no
\* task stays in flight then (updateStatus changes no state).
SyncFileStart(path, eventType) ==
  IF eventType = "DELETE" THEN {RemoveStart(path)}
  ELSE IF eventType \in {"CREATE", "MODIFY"}
            /\ vault[path] # Absent /\ ~shouldIgnore(path)
       THEN {SyncStart(path)}
       ELSE {}

\* The tasks started by the emission of the pending entries of S
Spawned(S) ==
  IF \E l \in 1..Len(callbacks) : callbacks[l] = "engine"
  THEN UNION {{[seq |-> Len(emitted[p]) + 1, op |-> o] :
                   o \in SyncFileStart(p, events[p])} : p \in S}
  ELSE {}

(***************************************************************************)
(* Debouncer                                                               *)
(***************************************************************************)
\* MergeKind without the check that the pending kind is not Delete
MergeKind_DeleteDowngraded(old, new) ==
  IF new = "DELETE" THEN "DELETE"
  ELSE IF old = "CREATE" /\ new = "MODIFY" THEN old
  ELSE new

\* The coalescing rule of Debouncer.add for an existing entry.
MergeKind(old, new) ==
  IF new = "DELETE" THEN "DELETE"
  ELSE IF old = "CREATE" /\ new = "MODIFY" THEN old
  ELSE IF old # "DELETE" THEN new
  ELSE old

\* Debouncer.add that overwrites the pending kind instead of merging
DebouncerAdd_NoMerge(ev, path, eventType) ==
  IF stopped THEN ev ELSE [ev EXCEPT ![path] = eventType]

\* Debouncer.add(path, eventType): the pending map after the call.
\* (Re)arming the timer is implicit: every pending entry has an armed timer.
DebouncerAdd(ev, path, eventType) ==
  IF stopped THEN ev
  ELSE IF ev[path] # NoEvent
       THEN [ev EXCEPT ![path] = MergeKind(ev[path], eventType)]
       ELSE [ev EXCEPT ![path] = eventType]

\* history of the kinds added to the pending entry of path
BurstAdd(b, path, eventType) ==
  IF stopped THEN b ELSE [b EXCEPT ![path] = Append(@, eventType)]

\* an emit whose loop is left by the first exception of a listener
Invoked_UntilThrow(throwers) ==
  {l \in 1..Len(callbacks) : \A k \in 1..(l - 1) : k \notin throwers}

\* The listeners that Debouncer.emit invokes when the listeners in throwers
\* throw: the try/catch inside the loop isolates each invocation.
Invoked(throwers) == 1..Len(callbacks)

\* the value of the history thrown in the behaviours that do not record it
NotRecorded == {0}

\* Debouncer.emit for every path of S (each has a pending entry): the
\* entries are removed and every listener is invoked once per entry.
EmitCoalescer(S, throwers) ==
  /\ events' = [p \in Paths |-> IF p \in S THEN NoEvent ELSE events[p]]
  /\ burst' = [p \in Paths |-> IF p \in S THEN <<>> ELSE burst[p]]
  /\ emitted' = [p \in Paths |->
                   IF p \in S
                   THEN Append(emitted[p], [kind |-> events[p], burst |-> burst[p]])
                   ELSE emitted[p]]
  /\ received' = [l \in 1..MaxListeners |-> [p \in Paths |->
                   IF p \in S /\ l \in Invoked(throwers)
                   THEN Append(received[l][p], events[p])
                   ELSE received[l][p]]]
  /\ thrown' = IF S = {} \/ thrown = NotRecorded THEN thrown
               ELSE thrown \cup (throwers \cap Invoked(throwers))

\* Listeners that may throw synchronously: the engine's handleFileEvent is
\* an async function and never does.
Probes == {l \in 1..Len(callbacks) : callbacks[l] = "probe"}

\* Debouncer.emit for the pending entries of S, with the tasks the engine's
\* listener starts
Emit(S) ==
  /\ \E throwers \in SUBSET Probes : EmitCoalescer(S, throwers)
  /\ tasks' = tasks \cup Spawned(S)

\* Debouncer.onEvent(callback): the listeners are registered when the
\* coalescer is set up, before the first add (as the SyncEngine constructor
\* does)
OnEvent ==
  /\ Len(callbacks) < MaxListeners
  /\ addsLeft = MaxAdds
  /\ callbacks' = Append(callbacks, "probe")
  /\ UNCHANGED <<events, stopped, burst, emitted, received, addsLeft, thrown>>
  /\ UNCHANGED engineVars
  /\ UNCHANGED retryVars

\* Debouncer.add(path, eventType) called directly
Add(path, eventType) ==
  /\ addsLeft > 0
  /\ addsLeft' = addsLeft - 1
  /\ events' = DebouncerAdd(events, path, eventType)
  /\ burst' = BurstAdd(burst, path, eventType)
  /\ UNCHANGED <<stopped, callbacks, emitted, received, thrown>>
  /\ UNCHANGED engineVars
  /\ UNCHANGED retryVars

\* The timer of path expires: emit(path)
TimerFire(path) ==
  /\ events[path] # NoEvent
  /\ Emit({path})
  /\ UNCHANGED <<stopped, callbacks, addsLeft>>
  /\ UNCHANGED <<vault, dbNotes, dbAtts, files, lastFullSync, dirty, retryQueue,
                 isRunning, passes, eventsLeft, failsLeft, passesLeft,
                 landSeq, recSeq, okSince>>
  /\ UNCHANGED retryVars

\* a flush() that leaves its loop after the first pending entry
Flush_FirstOnly ==
  /\ \E p \in Paths : events[p] # NoEvent /\ Emit({p})
  /\ UNCHANGED <<stopped, callbacks, addsLeft>>
  /\ UNCHANGED <<vault, dbNotes, dbAtts, files, lastFullSync, dirty, retryQueue,
                 isRunning, passes, eventsLeft, failsLeft, passesLeft,
                 landSeq, recSeq, okSince>>
  /\ UNCHANGED retryVars

\* Debouncer.flush() and SyncEngine.flush(): clears every timer and emits
\* every pending entry
Flush ==
  /\ Emit({p \in Paths : events[p] # NoEvent})
  /\ UNCHANGED <<stopped, callbacks, addsLeft>>
  /\ UNCHANGED <<vault, dbNotes, dbAtts, files, lastFullSync, dirty, retryQueue,
                 isRunning, passes, eventsLeft, failsLeft, passesLeft,
                 landSeq, recSeq, okSince>>
  /\ UNCHANGED retryVars

\* a stop() that sets the flag and leaves the timers and the entries alone
DebouncerStop_KeepPending ==
  /\ stopped' = TRUE
  /\ UNCHANGED <<events, burst, callbacks, emitted, received, addsLeft, thrown>>

\* Debouncer.stop()
DebouncerStop ==
  /\ stopped' = TRUE
  /\ events' = [p \in Paths |-> NoEvent]
  /\ burst' = [p \in Paths |-> <<>>]
  /\ UNCHANGED <<callbacks, emitted, received, addsLeft, thrown>>

Stop ==
  /\ DebouncerStop
  /\ UNCHANGED engineVars
  /\ UNCHANGED retryVars

(***************************************************************************)
(* Debouncer with its timers counted                                       *)
(*                                                                         *)
(* Time is counted in units; the delay of the coalescer is Delay units.    *)
(* timers[p].left is the time left on the timer of p's pending entry (-1:  *)
(* no timer), timers[p].waited the time passed since the last add for p    *)
(* (history).                                                              *)
(***************************************************************************)
NoTimer == [left |-> -1, waited |-> 0]
NoTimers == [p \in Paths |-> NoTimer]

\* everything but the coalescer
TimedStep ==
  /\ UNCHANGED engineVars
  /\ UNCHANGED <<settings, retries, ticksLeft, failedKind, stamps, blob, opsLeft,
                 plugin, tagRun>>

\* an add that leaves the running timer of a pending entry as it is
TimedAdd_KeepTimer(path, eventType) ==
  /\ TimedStep
  /\ addsLeft > 0
  /\ addsLeft' = addsLeft - 1
  /\ events' = DebouncerAdd(events, path, eventType)
  /\ burst' = BurstAdd(burst, path, eventType)
  /\ timers' = IF stopped THEN timers
               ELSE IF events[path] # NoEvent THEN [timers EXCEPT ![path].waited = 0]
               ELSE [timers EXCEPT ![path] = [left |-> Delay, waited |-> 0]]
  /\ UNCHANGED <<stopped, callbacks, emitted, received, thrown>>

\* add(path, eventType): clearTimeout of the entry's timer if there is one,
\* setTimeout(() => this.emit(path), this.delay)
TimedAdd(path, eventType) ==
  /\ TimedStep
  /\ addsLeft > 0
  /\ addsLeft' = addsLeft - 1
  /\ events' = DebouncerAdd(events, path, eventType)
  /\ burst' = BurstAdd(burst, path, eventType)
  /\ timers' = IF stopped THEN timers
               ELSE [timers EXCEPT ![path] = [left |-> Delay, waited |-> 0]]
  /\ UNCHANGED <<stopped, callbacks, emitted, received, thrown>>

\* One unit of time passes.  A timer that has run out fires before more
\* time passes (the host runs the callbacks of expired timers).
Tick ==
  /\ TimedStep
  /\ \E p \in Paths : timers[p].left > 0
  /\ \A p \in Paths : timers[p].left # 0
  /\ timers' = [p \in Paths |->
                  IF timers[p].left > 0
                  THEN [left |-> timers[p].left - 1, waited |-> timers[p].waited + 1]
                  ELSE timers[p]]
  /\ UNCHANGED coalescerVars

\* the timer of path has run out: its callback runs emit(path)
TimedFire(path) ==
  /\ timers[path].left = 0
  /\ events[path] # NoEvent
  /\ Emit({path})
  /\ timers' = [timers EXCEPT ![path] = NoTimer]
  /\ UNCHANGED <<stopped, callbacks, addsLeft>>
  /\ UNCHANGED <<vault, dbNotes, dbAtts, files, lastFullSync, dirty, retryQueue,
                 isRunning, passes, eventsLeft, failsLeft, passesLeft,
                 landSeq, recSeq, okSince>>
  /\ UNCHANGED <<settings, retries, ticksLeft, failedKind, stamps, blob, opsLeft,
                 plugin, tagRun>>

\* stop(): clearTimeout of every timer, the entries are dropped
TimedStop ==
  /\ TimedStep
  /\ DebouncerStop
  /\ timers' = NoTimers

(***************************************************************************)
(* The host: a change of the local tree and the vault event it raises      *)
(***************************************************************************)
\* SyncEngine.onFileCreate / onFileModify / onFileDelete
OnFileEvent(path, eventType) ==
  IF shouldIgnore(path)
  THEN UNCHANGED <<events, burst>>
  ELSE /\ events' = DebouncerAdd(events, path, eventType)
       /\ burst' = BurstAdd(burst, path, eventType)

HostChange(path, content, eventType) ==
  /\ eventsLeft > 0
  /\ eventsLeft' = eventsLeft - 1
  /\ vault' = [vault EXCEPT ![path] = content]
  /\ okSince' = [okSince EXCEPT ![path] = IF content = vault[path] THEN @ ELSE NoHash]
  /\ OnFileEvent(path, eventType)
  /\ UNCHANGED <<dbNotes, dbAtts, files, lastFullSync, dirty, retryQueue,
                 isRunning, tasks, passes, failsLeft, passesLeft, landSeq, recSeq>>
  /\ UNCHANGED <<stopped, callbacks, emitted, received, addsLeft, thrown>>
  /\ UNCHANGED retryVars

\* a file is created at path
HostCreate(path, content) ==
  /\ vault[path] = Absent
  /\ HostChange(path, content, "CREATE")

\* the file at path is saved (possibly with the content it had)
HostModify(path, content) ==
  /\ vault[path] # Absent
  /\ HostChange(path, content, "MODIFY")

\* the file at path is deleted
HostDelete(path) ==
  /\ vault[path] # Absent
  /\ HostChange(path, Absent, "DELETE")

(***************************************************************************)
(* SyncEngine.handleFileEvent, continued                                   *)
(***************************************************************************)
\* the sync that was suspended in o when it threw: removeFile or upsertFile
FailedSync(o) == IF o.pc = "delete" THEN "delete" ELSE "upsert"

\* a catch block that enqueues the path as already tried once
RetryOnThrow_CountOne(path) == [retryQueue EXCEPT ![path] = 1]

\* this.retryQueue.set(path, 0) in a catch block
RetryOnThrow(path) == [retryQueue EXCEPT ![path] = 0]

\* One resumption of the handleFileEvent call t.  When syncFile throws, the
\* catch block puts the path in the retry queue with count 0.
TaskStep(t) ==
  /\ t \in tasks
  /\ \E o2 \in OpNext(t.op) :
       /\ OpStep(t.op, o2)
       /\ tasks' = IF o2.pc \in OpReturned \cup {"threw"}
                   THEN tasks \ {t}
                   ELSE (tasks \ {t}) \cup {[t EXCEPT !.op = o2]}
       /\ files' = OpFiles(o2)
       /\ dirty' = OpDirty(o2)
       /\ retryQueue' = IF o2.pc = "threw" THEN RetryOnThrow(t.op.path)
                        ELSE retryQueue
       /\ failedKind' = IF o2.pc = "threw"
                        THEN [failedKind EXCEPT ![t.op.path] = FailedSync(t.op)]
                        ELSE failedKind
       /\ landSeq' = IF o2.pc \in {"upserted", "deleted"}
                     THEN [landSeq EXCEPT ![t.op.path] = t.seq] ELSE landSeq
       /\ recSeq' = IF o2.pc \in {"synced", "removed"}
                    THEN [recSeq EXCEPT ![t.op.path] = t.seq] ELSE recSeq
       /\ okSince' = [okSince EXCEPT ![t.op.path] =
                         CASE o2.pc = "synced" -> o2.hash
                           [] o2.pc = "skipped" -> hashContent(vault[t.op.path])
                           [] o2.pc = "removed" -> NoHash
                           [] OTHER -> @]
  /\ UNCHANGED <<vault, lastFullSync, isRunning, passes, eventsLeft, passesLeft>>
  /\ UNCHANGED coalescerVars
  /\ UNCHANGED runVars

(***************************************************************************)
(* SyncEngine.fullReconcile                                                *)
(***************************************************************************)
\* The order in which vault.getFiles() and the remote listings enumerate
FileOrder == <<NotePath, AttPath>>
NoOp == [path |-> NotePath, pc |-> "none", hash |-> NoHash]

\* A reconciliation call in flight: where it is suspended (pc), its local
\* variables, and what it has done so far (history): localHash, the hashes
\* it read in the compare loop; handled, the files / rows whose loop
\* iteration completed; attempted, the paths whose push was started; pushed,
\* the paths whose upsert (pull: local write) was applied; threw, the paths
\* whose push threw; batched, the paths whose batched delete was applied.
\*   "listNotes" "listAtts"      awaits getAllNoteHashes / getAllAttachmentHashes
\*   "cmp"                       awaits the read of localFiles[idx]
\*   "push"                      in syncNote / syncAttachment of toSync[idx], at op
\*   "delNotes" "delNotesDone"   awaits batchDeleteNotes: not applied / applied
\*   "delAtts" "delAttsDone"     awaits batchDeleteAttachments
\*   "status"                    lastFullSync is set, awaits updateStatus
\*   "getNotes" "getAtts"        pullFromDB awaits getAllNotes / getAllAttachments
\*   "pullRead" "pullWrite"      pullFromDB awaits the read / the write of rows[idx]
\*   "end"                       the finally block has run: the call is over
NewPass(kind, pc) ==
  [kind |-> kind, pc |-> pc, localFiles |-> <<>>, dbHashes |-> NoMap,
   idx |-> 0, toSync |-> <<>>, toDelete |-> {}, op |-> NoOp, rows |-> <<>>,
   localHash |-> NoMap, attempted |-> {}, pushed |-> {}, threw |-> {},
   handled |-> {}, batched |-> {}]

RemoveAt(seq, i) == [k \in 1..(Len(seq) - 1) |-> IF k < i THEN seq[k] ELSE seq[k + 1]]

\* The finally block: the call is over
End(r) == [r EXCEPT !.pc = "end"]

\* vault.getFiles().filter(f => !shouldIgnore(f.path))
LocalFiles ==
  SelectSeq(FileOrder, LAMBDA p : vault[p] # Absent /\ ~shouldIgnore(p))

\* new Map([...dbNoteHashes, ...dbAttachHashes])
MergeHashes(noteHashes, attHashes) ==
  [p \in Paths |-> IF attHashes[p] # NoHash THEN attHashes[p] ELSE noteHashes[p]]

\* the comparison without the test for a missing remote row
NeedsPush_OnlyMismatch(dbHash, hash) == dbHash # NoHash /\ dbHash # hash

\* "Compute local hashes and find files to sync", one iteration
NeedsPush(dbHash, hash) == dbHash = NoHash \/ dbHash # hash

\* "Find files to delete from DB"
ToDelete(dbHashes, localPaths) ==
  {p \in Paths : dbHashes[p] # NoHash /\ p \notin localPaths}

Range(seq) == {seq[k] : k \in 1..Len(seq)}

\* toDelete.filter(p => p.endsWith('.md')) and its complement
NotesToDelete(r) == {p \in r.toDelete : IsNote(p)}
AttachToDelete(r) == {p \in r.toDelete : ~IsNote(p)}

\* After the batched delete of the notes: the batched delete of the
\* attachments if there are any, else setLastFullSync and updateStatus
AfterDelNotes(r) ==
  IF AttachToDelete(r) # {} THEN [r EXCEPT !.pc = "delAtts"]
  ELSE [r EXCEPT !.pc = "status"]

\* "Delete removed files"
AfterPush(r) ==
  IF NotesToDelete(r) # {} THEN [r EXCEPT !.pc = "delNotes"]
  ELSE AfterDelNotes(r)

\* "Sync changed/new files": the loop at element j, up to the first await
StartPush(r, j) ==
  IF j > Len(r.toSync) THEN AfterPush([r EXCEPT !.op = NoOp])
  ELSE [r EXCEPT !.pc = "push", !.idx = j, !.op = SyncStart(r.toSync[j]),
                 !.attempted = @ \cup {r.toSync[j]}]

\* The compare loop is over
AfterCompare(r) ==
  StartPush([r EXCEPT !.toDelete = ToDelete(r.dbHashes, Range(r.localFiles))], 1)

\* The compare loop at element j, up to the read it awaits
StartCompare(r, j) ==
  IF j > Len(r.localFiles) THEN AfterCompare(r)
  ELSE [r EXCEPT !.pc = "cmp", !.idx = j]

\* a pass that sets the timestamp in its finally block as well
PassUpdate_StampInFinally(i, r2, f, dirtied) ==
  /\ passes' = IF r2.pc = "end" THEN RemoveAt(passes, i)
               ELSE [passes EXCEPT ![i] = r2]
  /\ isRunning' = IF r2.pc = "end" THEN FALSE ELSE isRunning
  /\ files' = f
  /\ lastFullSync' = IF r2.pc \in {"status", "end"} /\ passes[i].pc # "status"
                     THEN lastFullSync + 1 ELSE lastFullSync
  /\ dirty' = (dirty \/ dirtied \/ (r2.pc = "status" /\ passes[i].pc # "status"))

\* a pass that clears the running flag as the last statement of its try
\* block, so only a fullReconcile that completes clears it
PassUpdate_NoFinally(i, r2, f, dirtied) ==
  /\ passes' = IF r2.pc = "end" THEN RemoveAt(passes, i)
               ELSE [passes EXCEPT ![i] = r2]
  /\ isRunning' = IF r2.pc = "end" /\ passes[i].pc = "status" THEN FALSE ELSE isRunning
  /\ files' = f
  /\ lastFullSync' = IF r2.pc = "status" /\ passes[i].pc # "status"
                     THEN lastFullSync + 1 ELSE lastFullSync
  /\ dirty' = (dirty \/ dirtied \/ (r2.pc = "status" /\ passes[i].pc # "status"))

\* The step of call i leads to record r2: the store and the running flag.
\* setLastFullSync runs when the call reaches "status"; the finally block
\* clears the running flag.
PassUpdate(i, r2, f, dirtied) ==
  /\ passes' = IF r2.pc = "end" THEN RemoveAt(passes, i)
               ELSE [passes EXCEPT ![i] = r2]
  /\ isRunning' = IF r2.pc = "end" THEN FALSE ELSE isRunning
  /\ files' = f
  /\ lastFullSync' = IF r2.pc = "status" /\ passes[i].pc # "status"
                     THEN lastFullSync + 1 ELSE lastFullSync
  /\ dirty' = (dirty \/ dirtied \/ (r2.pc = "status" /\ passes[i].pc # "status"))

\* fullReconcile() when no reconciliation is running (it returns at once
\* otherwise)
FullStart ==
  /\ ~isRunning
  /\ passesLeft > 0
  /\ passesLeft' = passesLeft - 1
  /\ isRunning' = TRUE
  /\ passes' = Append(passes, [NewPass("full", "listNotes") EXCEPT
                                 !.localFiles = LocalFiles])
  /\ UNCHANGED <<vault, dbNotes, dbAtts, files, lastFullSync, dirty, retryQueue,
                 tasks, eventsLeft, failsLeft, landSeq, recSeq, okSince>>
  /\ UNCHANGED coalescerVars
  /\ UNCHANGED retryVars

\* getAllNoteHashes() returns
FullListNotes(i) ==
  /\ passes[i].pc = "listNotes"
  /\ PassUpdate(i, [passes[i] EXCEPT !.pc = "listAtts", !.dbHashes = dbNotes], files, FALSE)
  /\ UNCHANGED <<vault, dbNotes, dbAtts, retryQueue, tasks, eventsLeft, failsLeft,
                 passesLeft, landSeq, recSeq, okSince>>
  /\ UNCHANGED coalescerVars
  /\ UNCHANGED retryVars

\* getAllAttachmentHashes() returns
FullListAtts(i) ==
  /\ passes[i].pc = "listAtts"
  /\ PassUpdate(i, StartCompare([passes[i] EXCEPT
                      !.dbHashes = MergeHashes(@, dbAtts)], 1), files, FALSE)
  /\ UNCHANGED <<vault, dbNotes, dbAtts, retryQueue, tasks, eventsLeft, failsLeft,
                 passesLeft, landSeq, recSeq, okSince>>
  /\ UNCHANGED coalescerVars
  /\ UNCHANGED retryVars

\* A remote call of the pass rejects: the catch block reports, the pass is over
PassRemoteFail(i) ==
  /\ passes[i].pc \in {"listNotes", "listAtts", "delNotes", "delAtts",
                       "getNotes", "getAtts"}
  /\ failsLeft > 0
  /\ failsLeft' = failsLeft - 1
  /\ PassUpdate(i, End(passes[i]), files, FALSE)
  /\ UNCHANGED <<vault, dbNotes, dbAtts, retryQueue, tasks, eventsLeft,
                 passesLeft, landSeq, recSeq, okSince>>
  /\ UNCHANGED coalescerVars
  /\ UNCHANGED retryVars

\* The read of localFiles[idx] returns or throws (the file is gone): no
\* try/catch inside the loop, so a throw ends the pass
CompareOutcome(r) ==
  LET file == r.localFiles[r.idx]
      hash == hashContent(vault[file])
  IN IF vault[file] = Absent THEN End(r)
     ELSE StartCompare([r EXCEPT
            !.localHash[file] = hash,
            !.handled = @ \cup {file},
            !.toSync = IF NeedsPush(r.dbHashes[file], hash)
                       THEN Append(@, file) ELSE @], r.idx + 1)

FullCompare(i) ==
  /\ passes[i].pc = "cmp"
  /\ PassUpdate(i, CompareOutcome(passes[i]), files, FALSE)
  /\ UNCHANGED <<vault, dbNotes, dbAtts, retryQueue, tasks, eventsLeft, failsLeft,
                 passesLeft, landSeq, recSeq, okSince>>
  /\ UNCHANGED coalescerVars
  /\ UNCHANGED retryVars

PushOutcome_Abort(r, o2) ==
  LET r1 == [r EXCEPT !.pushed = IF o2.pc = "upserted" THEN @ \cup {o2.path} ELSE @,
                      !.threw = IF o2.pc = "threw" THEN @ \cup {o2.path} ELSE @]
  IN IF o2.pc = "threw" THEN End(r1)
     ELSE IF o2.pc \in OpReturned THEN StartPush(r1, r.idx + 1)
     ELSE [r1 EXCEPT !.op = o2]

\* One resumption of syncNote / syncAttachment inside the push loop; a throw
\* is caught per file and puts the path in the retry queue with count 0
\* (PushOutcome_Abort: a push loop without the try/catch)
PushOutcome(r, o2) ==
  LET r1 == [r EXCEPT !.pushed = IF o2.pc = "upserted" THEN @ \cup {o2.path} ELSE @,
                      !.threw = IF o2.pc = "threw" THEN @ \cup {o2.path} ELSE @]
  IN IF o2.pc \in OpReturned \cup {"threw"}
     THEN StartPush(r1, r.idx + 1)
     ELSE [r1 EXCEPT !.op = o2]

FullPush(i) ==
  /\ passes[i].pc = "push"
  /\ \E o2 \in OpNext(passes[i].op) :
       /\ OpStep(passes[i].op, o2)
       /\ PassUpdate(i, PushOutcome(passes[i], o2), OpFiles(o2),
                     o2.pc \in {"synced", "removed"})
       /\ retryQueue' = IF o2.pc = "threw" THEN RetryOnThrow(o2.path)
                        ELSE retryQueue
       /\ failedKind' = IF o2.pc = "threw"
                        THEN [failedKind EXCEPT ![o2.path] = FailedSync(passes[i].op)]
                        ELSE failedKind
  /\ UNCHANGED <<vault, tasks, eventsLeft, passesLeft, landSeq, recSeq, okSince>>
  /\ UNCHANGED coalescerVars
  /\ UNCHANGED runVars

\* batchDeleteNotes(notesToDelete) takes effect
FullDelNotesLand(i) ==
  /\ passes[i].pc = "delNotes"
  /\ dbNotes' = [p \in Paths |-> IF p \in NotesToDelete(passes[i])
                                 THEN NoHash ELSE dbNotes[p]]
  /\ PassUpdate(i, [passes[i] EXCEPT !.pc = "delNotesDone",
                       !.batched = @ \cup NotesToDelete(passes[i])], files, FALSE)
  /\ UNCHANGED <<vault, dbAtts, retryQueue, tasks, eventsLeft, failsLeft,
                 passesLeft, landSeq, recSeq, okSince>>
  /\ UNCHANGED coalescerVars
  /\ UNCHANGED retryVars

\* after batchDeleteNotes: removeFileState for each deleted note
FullDelNotesCont(i) ==
  /\ passes[i].pc = "delNotesDone"
  /\ PassUpdate(i, AfterDelNotes(passes[i]),
                removeFileState(files, NotesToDelete(passes[i])), TRUE)
  /\ UNCHANGED <<vault, dbNotes, dbAtts, retryQueue, tasks, eventsLeft, failsLeft,
                 passesLeft, landSeq, recSeq, okSince>>
  /\ UNCHANGED coalescerVars
  /\ UNCHANGED retryVars

\* batchDeleteAttachments(attachToDelete) takes effect
FullDelAttsLand(i) ==
  /\ passes[i].pc = "delAtts"
  /\ dbAtts' = [p \in Paths |-> IF p \in AttachToDelete(passes[i])
                                THEN NoHash ELSE dbAtts[p]]
  /\ PassUpdate(i, [passes[i] EXCEPT !.pc = "delAttsDone",
                       !.batched = @ \cup AttachToDelete(passes[i])], files, FALSE)
  /\ UNCHANGED <<vault, dbNotes, retryQueue, tasks, eventsLeft, failsLeft,
                 passesLeft, landSeq, recSeq, okSince>>
  /\ UNCHANGED coalescerVars
  /\ UNCHANGED retryVars

\* after batchDeleteAttachments: removeFileState for each, setLastFullSync
FullDelAttsCont(i) ==
  /\ passes[i].pc = "delAttsDone"
  /\ PassUpdate(i, [passes[i] EXCEPT !.pc = "status"],
                removeFileState(files, AttachToDelete(passes[i])), TRUE)
  /\ UNCHANGED <<vault, dbNotes, dbAtts, retryQueue, tasks, eventsLeft, failsLeft,
                 passesLeft, landSeq, recSeq, okSince>>
  /\ UNCHANGED coalescerVars
  /\ UNCHANGED retryVars

\* updateStatus() returns (it swallows its errors); the finally block
FullFinish(i) ==
  /\ passes[i].pc = "status"
  /\ PassUpdate(i, End(passes[i]), files, FALSE)
  /\ UNCHANGED <<vault, dbNotes, dbAtts, retryQueue, tasks, eventsLeft, failsLeft,
                 passesLeft, landSeq, recSeq, okSince>>
  /\ UNCHANGED coalescerVars
  /\ UNCHANGED retryVars

(***************************************************************************)
(* SyncEngine.pullFromDB                                                   *)
(***************************************************************************)
\* the rows of a table, in enumeration order
Rows(table) ==
  LET present == SelectSeq(FileOrder, LAMBDA p : table[p] # NoHash)
  IN [k \in 1..Len(present) |-> [path |-> present[k], hash |-> table[present[k]]]]

\* The loops over notes and attachments at row j, up to the first await:
\* the read when a file is at the path, else the write (no folder to create:
\* the paths of the model are at the root)
StartPull(r, j) ==
  IF j > Len(r.rows) THEN End(r)
  ELSE [r EXCEPT !.idx = j,
                 !.pc = IF vault[r.rows[j].path] # Absent
                        THEN "pullRead" ELSE "pullWrite"]

\* pullFromDB() when no reconciliation is running
PullStart ==
  /\ ~isRunning
  /\ passesLeft > 0
  /\ passesLeft' = passesLeft - 1
  /\ isRunning' = TRUE
  /\ passes' = Append(passes, NewPass("pull", "getNotes"))
  /\ UNCHANGED <<vault, dbNotes, dbAtts, files, lastFullSync, dirty, retryQueue,
                 tasks, eventsLeft, failsLeft, landSeq, recSeq, okSince>>
  /\ UNCHANGED coalescerVars
  /\ UNCHANGED retryVars

\* getAllNotes() returns
PullGetNotes(i) ==
  /\ passes[i].pc = "getNotes"
  /\ PassUpdate(i, [passes[i] EXCEPT !.pc = "getAtts", !.rows = Rows(dbNotes)], files, FALSE)
  /\ UNCHANGED <<vault, dbNotes, dbAtts, retryQueue, tasks, eventsLeft, failsLeft,
                 passesLeft, landSeq, recSeq, okSince>>
  /\ UNCHANGED coalescerVars
  /\ UNCHANGED retryVars

\* a pull that mirrors the remote store: after the listings it deletes the
\* local files that have no row
PullGetAtts_Mirror(i) ==
  /\ passes[i].pc = "getAtts"
  /\ PassUpdate(i, StartPull([passes[i] EXCEPT !.rows = @ \o Rows(dbAtts)], 1), files, FALSE)
  /\ vault' = [p \in Paths |->
                IF \E k \in 1..Len(passes[i].rows) : passes[i].rows[k].path = p
                THEN vault[p]
                ELSE IF dbAtts[p] # NoHash THEN vault[p] ELSE Absent]
  /\ UNCHANGED <<dbNotes, dbAtts, retryQueue, tasks, eventsLeft, failsLeft,
                 passesLeft, landSeq, recSeq, okSince>>
  /\ UNCHANGED coalescerVars
  /\ UNCHANGED retryVars

\* getAllAttachments() returns
PullGetAtts(i) ==
  /\ passes[i].pc = "getAtts"
  /\ PassUpdate(i, StartPull([passes[i] EXCEPT !.rows = @ \o Rows(dbAtts)], 1), files, FALSE)
  /\ UNCHANGED <<vault, dbNotes, dbAtts, retryQueue, tasks, eventsLeft, failsLeft,
                 passesLeft, landSeq, recSeq, okSince>>
  /\ UNCHANGED coalescerVars
  /\ UNCHANGED retryVars

\* a pull without the hash check: every row is written
PullReadOutcome_AlwaysWrite(r) ==
  LET row == r.rows[r.idx]
  IN IF vault[row.path] = Absent THEN End(r)
     ELSE [r EXCEPT !.pc = "pullWrite"]

\* The read of the local file of rows[idx] returns or throws: equal hash
\* means skip the row, a throw ends the pull
PullReadOutcome(r) ==
  LET row == r.rows[r.idx]
  IN IF vault[row.path] = Absent THEN End(r)
     ELSE IF hashContent(vault[row.path]) = row.hash
          THEN StartPull([r EXCEPT !.handled = @ \cup {row.path}], r.idx + 1)
          ELSE [r EXCEPT !.pc = "pullWrite"]

PullRead(i) ==
  /\ passes[i].pc = "pullRead"
  /\ PassUpdate(i, PullReadOutcome(passes[i]), files, FALSE)
  /\ UNCHANGED <<vault, dbNotes, dbAtts, retryQueue, tasks, eventsLeft, failsLeft,
                 passesLeft, landSeq, recSeq, okSince>>
  /\ UNCHANGED coalescerVars
  /\ UNCHANGED retryVars

\* a pull that records the file it wrote as synced
PullWrite_Records(i) ==
  /\ passes[i].pc = "pullWrite"
  /\ LET row == passes[i].rows[passes[i].idx]
     IN /\ vault' = [vault EXCEPT ![row.path] = RawContent(row.hash)]
        /\ okSince' = [okSince EXCEPT ![row.path] =
                         IF RawContent(row.hash) = vault[row.path] THEN @ ELSE NoHash]
        /\ PassUpdate(i, StartPull([passes[i] EXCEPT
                            !.handled = @ \cup {row.path},
                            !.pushed = @ \cup {row.path}], passes[i].idx + 1),
                      setFileState(files, row.path, row.hash), TRUE)
  /\ UNCHANGED <<dbNotes, dbAtts, retryQueue, tasks, eventsLeft, failsLeft,
                 passesLeft, landSeq, recSeq>>
  /\ UNCHANGED coalescerVars
  /\ UNCHANGED retryVars

\* adapter.write / writeBinary of rows[idx] returns
PullWrite(i) ==
  /\ passes[i].pc = "pullWrite"
  /\ LET row == passes[i].rows[passes[i].idx]
     IN /\ vault' = [vault EXCEPT ![row.path] = RawContent(row.hash)]
        /\ okSince' = [okSince EXCEPT ![row.path] =
                         IF RawContent(row.hash) = vault[row.path] THEN @ ELSE NoHash]
        /\ PassUpdate(i, StartPull([passes[i] EXCEPT
                            !.handled = @ \cup {row.path},
                            !.pushed = @ \cup {row.path}], passes[i].idx + 1), files, FALSE)
  /\ UNCHANGED <<dbNotes, dbAtts, retryQueue, tasks, eventsLeft, failsLeft,
                 passesLeft, landSeq, recSeq>>
  /\ UNCHANGED coalescerVars
  /\ UNCHANGED retryVars

\* adapter.write / writeBinary of rows[idx] throws: the pull is over
PullWriteFail(i) ==
  /\ passes[i].pc = "pullWrite"
  /\ failsLeft > 0
  /\ failsLeft' = failsLeft - 1
  /\ PassUpdate(i, End(passes[i]), files, FALSE)
  /\ UNCHANGED <<vault, dbNotes, dbAtts, retryQueue, tasks, eventsLeft,
                 passesLeft, landSeq, recSeq, okSince>>
  /\ UNCHANGED coalescerVars
  /\ UNCHANGED retryVars

(***************************************************************************)
(* SyncEngine.retryFailed                                                  *)
(***************************************************************************)
\* The paths that have a Retry Entry
Entries(q) == {p \in Paths : q[p] # NoRetry}

\* The orders in which a Map with the keys of S can enumerate them (its
\* insertion order, which the model does not keep)
Orders(S) ==
  {order \in [1..Cardinality(S) -> S] :
     \A j, k \in 1..Cardinality(S) : j # k => order[j] # order[k]}

\* Array.from(this.retryQueue.entries())
Snapshot(q, order) ==
  [k \in 1..Len(order) |-> [path |-> order[k], count |-> q[order[k]]]]

\* A retryFailed call in flight: the entries it iterates (snap), where it is
\* in them (idx), the upsertFile call it awaits (op), and the paths whose
\* attempt threw (failed, history).  pc is "attempt", or "end" when the
\* loop is over (updateStatus changes no state).
NewRun(snap) ==
  [pc |-> "attempt", snap |-> snap, idx |-> 0, op |-> NoOp, failed |-> {}]

\* a loop that lets an entry at the ceiling through (count > maxRetries)
RECURSIVE RetryLoop_OffByOne(_, _, _)
RetryLoop_OffByOne(q, r, j) ==
  IF j > Len(r.snap)
  THEN [queue |-> q, run |-> [r EXCEPT !.pc = "end", !.idx = j, !.op = NoOp]]
  ELSE LET path == r.snap[j].path
           count == r.snap[j].count
       IN IF count > settings.retryAttempts
          THEN RetryLoop_OffByOne([q EXCEPT ![path] = NoRetry], r, j + 1)
          ELSE IF vault[path] = Absent \/ shouldIgnore(path)
               THEN RetryLoop_OffByOne([q EXCEPT ![path] = NoRetry], r, j + 1)
               ELSE [queue |-> [q EXCEPT ![path] = count + 1],
                     run |-> [r EXCEPT !.idx = j, !.op = SyncStart(path)]]

\* The loop of retryFailed from element j up to its next await, on the retry
\* map q: an entry at the ceiling is deleted; else its count becomes the
\* snapshot's count + 1 and upsertFile is called, which returns at once when
\* no file is at the path or the path is ignored (the entry is deleted then)
RECURSIVE RetryLoop(_, _, _)
RetryLoop(q, r, j) ==
  IF j > Len(r.snap)
  THEN [queue |-> q, run |-> [r EXCEPT !.pc = "end", !.idx = j, !.op = NoOp]]
  ELSE LET path == r.snap[j].path
           count == r.snap[j].count
       IN IF count >= settings.retryAttempts
          THEN RetryLoop([q EXCEPT ![path] = NoRetry], r, j + 1)
          ELSE IF vault[path] = Absent \/ shouldIgnore(path)
               THEN RetryLoop([q EXCEPT ![path] = NoRetry], r, j + 1)
               ELSE [queue |-> [q EXCEPT ![path] = count + 1],
                     run |-> [r EXCEPT !.idx = j, !.op = SyncStart(path)]]

\* A tick of the retry interval: retryFailed() up to its first await
RetryStart ==
  /\ ticksLeft > 0
  /\ ticksLeft' = ticksLeft - 1
  /\ \E order \in Orders(Entries(retryQueue)) :
       LET res == RetryLoop(retryQueue, NewRun(Snapshot(retryQueue, order)), 1)
       IN /\ retryQueue' = res.queue
          /\ retries' = IF res.run.pc = "end" THEN retries
                        ELSE Append(retries, res.run)
  /\ UNCHANGED <<vault, dbNotes, dbAtts, files, lastFullSync, dirty, isRunning,
                 tasks, passes, eventsLeft, failsLeft, passesLeft,
                 landSeq, recSeq, okSince, settings, failedKind>>
  /\ UNCHANGED coalescerVars
  /\ UNCHANGED aloneVars

\* One resumption of the upsertFile call of run r led to o2: on return the
\* entry is deleted, on a throw it is left as it is; the loop goes on
RetryOutcome(r, o2) ==
  IF o2.pc \in OpReturned
  THEN RetryLoop([retryQueue EXCEPT ![o2.path] = NoRetry], r, r.idx + 1)
  ELSE IF o2.pc = "threw"
       THEN RetryLoop(retryQueue, [r EXCEPT !.failed = @ \cup {o2.path}], r.idx + 1)
       ELSE [queue |-> retryQueue, run |-> [r EXCEPT !.op = o2]]

\* One resumption of the retryFailed call in slot i
RetryStep(i) ==
  /\ retries[i].pc = "attempt"
  /\ \E o2 \in OpNext(retries[i].op) :
       /\ OpStep(retries[i].op, o2)
       /\ LET res == RetryOutcome(retries[i], o2)
          IN /\ retryQueue' = res.queue
             /\ retries' = IF res.run.pc = "end" THEN RemoveAt(retries, i)
                           ELSE [retries EXCEPT ![i] = res.run]
       /\ files' = OpFiles(o2)
       /\ dirty' = OpDirty(o2)
  /\ UNCHANGED <<vault, lastFullSync, isRunning, tasks, passes, eventsLeft,
                 passesLeft, landSeq, recSeq, okSince, settings, ticksLeft, failedKind>>
  /\ UNCHANGED coalescerVars
  /\ UNCHANGED aloneVars

(***************************************************************************)
(* SyncEngine.stop                                                         *)
(***************************************************************************)
EngineStop ==
  /\ DebouncerStop
  /\ isRunning' = FALSE
  /\ UNCHANGED <<vault, dbNotes, dbAtts, files, lastFullSync, dirty, retryQueue,
                 tasks, passes, eventsLeft, failsLeft, passesLeft, landSeq, recSeq, okSince>>
  /\ UNCHANGED retryVars

(***************************************************************************)
(* Specifications                                                          *)
(***************************************************************************)
\* no saveState call in flight; data is the object saveState builds
NoSave == [pc |-> "idle", data |-> NoBlob]
\* no plugin call made, no mergeTags call made
NoPlugin == [db |-> "null", busy |-> FALSE, engine |-> FALSE,
             called |-> "none", notice |-> "none", remote |-> FALSE,
             save |-> NoSave, flushed |-> {}]
NoMerge == [meta |-> <<>>, inline |-> <<>>, out |-> <<>>, done |-> FALSE]

\* DEFAULT_SETTINGS, the fields the model reads
DefaultSettings == [ignorePatterns |-> ignorePatterns, retryAttempts |-> retryAttempts]

InitPending ==
  /\ events = [p \in Paths |-> NoEvent]
  /\ stopped = FALSE
  /\ burst = [p \in Paths |-> <<>>]
  /\ emitted = [p \in Paths |-> <<>>]
  /\ received = [l \in 1..MaxListeners |-> [p \in Paths |-> <<>>]]

InitDebouncer == InitPending /\ thrown = NotRecorded

\* the components modelled on their own, not in use
InitAlone ==
  /\ stamps = NoStamps
  /\ blob = NoBlob
  /\ opsLeft = 0
  /\ plugin = NoPlugin
  /\ tagRun = NoMerge
  /\ timers = NoTimers

\* new SyncEngine(app, db, settings), with the counters and histories of the model
InitEngineIdle ==
  /\ InitAlone
  /\ retries = <<>>
  /\ failedKind = [p \in Paths |-> "none"]
  /\ retryQueue = [p \in Paths |-> NoRetry]
  /\ isRunning = FALSE
  /\ tasks = {}
  /\ passes = <<>>
  /\ lastFullSync = 0
  /\ dirty = FALSE
  /\ landSeq = [p \in Paths |-> 0]
  /\ recSeq = [p \in Paths |-> 0]
  /\ okSince = [p \in Paths |-> NoHash]

\* A coalescer of its own, with no listener yet
InitCoalescerWith(history) ==
  /\ settings = DefaultSettings
  /\ ticksLeft = 0
  /\ InitPending
  /\ thrown = history
  /\ callbacks = <<>>
  /\ InitEngineIdle
  /\ addsLeft = MaxAdds
  /\ eventsLeft = 0
  /\ failsLeft = 0
  /\ passesLeft = 0
  /\ vault = [p \in Paths |-> Absent]
  /\ dbNotes = [p \in Paths |-> NoHash]
  /\ dbAtts = [p \in Paths |-> NoHash]
  /\ files = [p \in Paths |-> NoHash]

NextCoalescer ==
  \/ OnEvent
  \/ \E p \in Paths, k \in EventType : Add(p, k)
  \/ \E p \in Paths : TimerFire(p)
  \/ Flush
  \/ Stop

InitCoalescer == InitCoalescerWith(NotRecorded)

\* A coalescer with one listener, its timers counted
InitTimer ==
  /\ settings = DefaultSettings
  /\ ticksLeft = 0
  /\ InitDebouncer
  /\ callbacks = <<"probe">>
  /\ InitEngineIdle
  /\ addsLeft = TimerAdds
  /\ eventsLeft = 0
  /\ failsLeft = 0
  /\ passesLeft = 0
  /\ vault = [p \in Paths |-> Absent]
  /\ dbNotes = NoMap
  /\ dbAtts = NoMap
  /\ files = NoMap

NextTimer ==
  \/ \E p \in Paths, k \in EventType : TimedAdd(p, k)
  \/ Tick
  \/ \E p \in Paths : TimedFire(p)
  \/ TimedStop

\* Time passes and the host runs the callback of a timer that has run out
FairTimer == WF_vars(Tick) /\ \A p \in Paths : WF_vars(TimedFire(p))

SpecTimer == InitTimer /\ [][NextTimer]_vars /\ FairTimer

SpecCoalescer == InitCoalescer /\ [][NextCoalescer]_vars

\* The same coalescer, with the history of the listeners that threw
InitThrow == InitCoalescerWith({})
SpecThrow == InitThrow /\ [][NextCoalescer]_vars

\* An engine after connect(): the tree holds any files, the state loaded from
\* the plugin data holds any records, the remote tables hold any rows whose
\* path suits the table.
InitEngine ==
  /\ InitDebouncer
  /\ callbacks = <<"engine">>
  /\ InitEngineIdle
  /\ addsLeft = 0
  /\ vault \in [Paths -> {Absent, 1}]
  /\ dbNotes \in {f \in [Paths -> {NoHash, hashContent(1)}] :
                    \A p \in Paths : ~IsNote(p) => f[p] = NoHash}
  /\ dbAtts \in {f \in [Paths -> {NoHash, hashContent(1)}] :
                    \A p \in Paths : IsNote(p) => f[p] = NoHash}
  /\ files \in [Paths -> {NoHash, hashContent(1)}]

\* The steps of the fullReconcile calls in flight
FullStep ==
  \/ \E i \in 1..Len(passes) : FullListNotes(i)
  \/ \E i \in 1..Len(passes) : FullListAtts(i)
  \/ \E i \in 1..Len(passes) : FullCompare(i)
  \/ \E i \in 1..Len(passes) : FullPush(i)
  \/ \E i \in 1..Len(passes) : FullDelNotesLand(i)
  \/ \E i \in 1..Len(passes) : FullDelNotesCont(i)
  \/ \E i \in 1..Len(passes) : FullDelAttsLand(i)
  \/ \E i \in 1..Len(passes) : FullDelAttsCont(i)
  \/ \E i \in 1..Len(passes) : FullFinish(i)
  \/ \E i \in 1..Len(passes) : PassRemoteFail(i)

\* The steps of the pullFromDB calls in flight
PullStep ==
  \/ \E i \in 1..Len(passes) : PullGetNotes(i)
  \/ \E i \in 1..Len(passes) : PullGetAtts(i)
  \/ \E i \in 1..Len(passes) : PullRead(i)
  \/ \E i \in 1..Len(passes) : PullWrite(i)
  \/ \E i \in 1..Len(passes) : PullWriteFail(i)

\* fullReconcile calls on a tree that changes under them; the events the
\* changes raise stay pending in the coalescer (its window does not elapse)
NextReconcile ==
  \/ \E p \in Paths, c \in Contents : HostCreate(p, c)
  \/ \E p \in Paths, c \in Contents : HostModify(p, c)
  \/ \E p \in Paths : HostDelete(p)
  \/ FullStart
  \/ FullStep

\* The same with the coalescer's timers, the handleFileEvent calls they
\* start and pullFromDB calls, interleaved
NextBatch ==
  \/ NextReconcile
  \/ \E p \in Paths : TimerFire(p)
  \/ \E t \in tasks : TaskStep(t)
  \/ PullStart
  \/ PullStep

\* The same with flush() and stop() called at any moment
NextEngine ==
  \/ NextBatch
  \/ Flush
  \/ EngineStop

InitReconcile ==
  /\ settings = DefaultSettings
  /\ ticksLeft = 0
  /\ InitEngine
  /\ eventsLeft = PassEvents
  /\ failsLeft = PassFails
  /\ passesLeft = PassStarts

SpecReconcile == InitReconcile /\ [][NextReconcile]_vars

InitBatch ==
  /\ settings = DefaultSettings
  /\ ticksLeft = 0
  /\ InitEngine
  /\ eventsLeft = BatchEvents
  /\ failsLeft = BatchFails
  /\ passesLeft = BatchStarts

SpecBatch == InitBatch /\ [][NextBatch]_vars

NextSync ==
  \/ \E p \in Paths, c \in Contents : HostCreate(p, c)
  \/ \E p \in Paths, c \in Contents : HostModify(p, c)
  \/ \E p \in Paths : HostDelete(p)
  \/ \E p \in Paths : TimerFire(p)
  \/ Flush
  \/ EngineStop
  \/ \E t \in tasks : TaskStep(t)

\* The engine driven by the coalescer only
InitSync ==
  /\ settings = DefaultSettings
  /\ ticksLeft = 0
  /\ InitEngine
  /\ eventsLeft = SyncEvents
  /\ failsLeft = SyncFails
  /\ passesLeft = 0

SpecSync == InitSync /\ [][NextSync]_vars

\* The engine driven by the coalescer, one emission at a time: an event is
\* emitted only when no handleFileEvent call is in flight
NextSerial ==
  \/ \E p \in Paths, c \in Contents : HostCreate(p, c)
  \/ \E p \in Paths, c \in Contents : HostModify(p, c)
  \/ \E p \in Paths : HostDelete(p)
  \/ \E p \in Paths : tasks = {} /\ TimerFire(p)
  \/ \E t \in tasks : TaskStep(t)

InitSerial ==
  /\ settings = DefaultSettings
  /\ ticksLeft = 0
  /\ InitEngine
  /\ eventsLeft = SerialEvents
  /\ failsLeft = SerialFails
  /\ passesLeft = 0

SpecSerial == InitSerial /\ [][NextSerial]_vars

\* A first sync of a tree with one note, with reconciliations, stop, flush
\* and coalescer-driven syncs interleaved
InitFlag ==
  /\ settings = DefaultSettings
  /\ ticksLeft = 0
  /\ InitDebouncer
  /\ callbacks = <<"engine">>
  /\ InitEngineIdle
  /\ addsLeft = 0
  /\ vault = [p \in Paths |-> IF IsNote(p) THEN 1 ELSE Absent]
  /\ dbNotes = NoMap
  /\ dbAtts = NoMap
  /\ files = NoMap
  /\ eventsLeft = FlagEvents
  /\ failsLeft = FlagFails
  /\ passesLeft = FlagStarts

SpecFlag == InitFlag /\ [][NextEngine]_vars

\* The engine driven by the coalescer, with the retry interval running
NextRetry ==
  \/ \E p \in Paths, c \in Contents : HostCreate(p, c)
  \/ \E p \in Paths, c \in Contents : HostModify(p, c)
  \/ \E p \in Paths : HostDelete(p)
  \/ \E p \in Paths : TimerFire(p)
  \/ \E t \in tasks : TaskStep(t)
  \/ RetryStart
  \/ \E i \in 1..Len(retries) : RetryStep(i)

InitRetry ==
  /\ InitEngine
  /\ settings = [DefaultSettings EXCEPT !.retryAttempts = RetryCeiling]
  /\ eventsLeft = RetryEvents
  /\ failsLeft = RetryFails
  /\ passesLeft = 0
  /\ ticksLeft = RetryTicks

SpecRetry == InitRetry /\ [][NextRetry]_vars

\* An engine after syncs of a tree of two files that was never synced have
\* failed: any of the paths has a Retry Entry with count 0, made by the
\* catch block of handleFileEvent after a failed upsert
InitDrain ==
  /\ InitDebouncer
  /\ callbacks = <<"engine">>
  /\ InitAlone
  /\ retries = <<>>
  /\ isRunning = FALSE
  /\ tasks = {}
  /\ passes = <<>>
  /\ lastFullSync = 0
  /\ dirty = FALSE
  /\ landSeq = [p \in Paths |-> 0]
  /\ recSeq = [p \in Paths |-> 0]
  /\ okSince = [p \in Paths |-> NoHash]
  /\ addsLeft = 0
  /\ vault = [p \in Paths |-> 1]
  /\ dbNotes = NoMap
  /\ dbAtts = NoMap
  /\ files = NoMap
  /\ retryQueue \in [Paths -> {NoRetry, 0}]
  /\ failedKind = [p \in Paths |->
                     IF retryQueue[p] = NoRetry THEN "none"
                     ELSE IF vault[p] = Absent THEN "delete" ELSE "upsert"]
  /\ settings = [DefaultSettings EXCEPT !.retryAttempts = DrainCeiling]
  /\ eventsLeft = DrainEvents
  /\ failsLeft = DrainFails
  /\ passesLeft = 0
  /\ ticksLeft = DrainTicks

\* The retry interval running while the note is edited: it gets the content 2
NextDrain ==
  \/ vault[NotePath] = 1 /\ HostModify(NotePath, 2)
  \/ \E p \in Paths : TimerFire(p)
  \/ \E t \in tasks : TaskStep(t)
  \/ RetryStart
  \/ \E i \in 1..Len(retries) : RetryStep(i)

SpecDrain == InitDrain /\ [][NextDrain]_vars

\* The engine with an ignore pattern that matches the attachment: the tree
\* and the remote tables may hold it all the same (the pattern was added
\* later, or another device pushed the row)
InitIgnore ==
  /\ InitEngine
  /\ settings = [DefaultSettings EXCEPT !.ignorePatterns = @ \cup {AttPath}]
  /\ eventsLeft = IgnoreEvents
  /\ failsLeft = IgnoreFails
  /\ passesLeft = IgnoreStarts
  /\ ticksLeft = 0

SpecIgnore == InitIgnore /\ [][NextBatch]_vars

\* pullFromDB calls on a tree that changes under them; the events the
\* changes raise stay pending in the coalescer
NextPull ==
  \/ \E p \in Paths, c \in Contents : HostCreate(p, c)
  \/ \E p \in Paths, c \in Contents : HostModify(p, c)
  \/ \E p \in Paths : HostDelete(p)
  \/ PullStart
  \/ PullStep

InitPull ==
  /\ settings = DefaultSettings
  /\ ticksLeft = 0
  /\ InitEngine
  /\ eventsLeft = PullEvents
  /\ failsLeft = PullFails
  /\ passesLeft = PullStarts

SpecPull == InitPull /\ [][NextPull]_vars

\* Every operation of the engine, interleaved with the reconciliation
\* calls: the host's changes, the syncs the coalescer starts (one emission
\* at a time), fullReconcile and pullFromDB calls, and the retry interval (a
\* tick finds the previous retryFailed call over)
NextAll ==
  \/ \E p \in Paths, c \in Contents : HostCreate(p, c)
  \/ \E p \in Paths, c \in Contents : HostModify(p, c)
  \/ \E p \in Paths : HostDelete(p)
  \/ \E p \in Paths : tasks = {} /\ TimerFire(p)
  \/ \E t \in tasks : TaskStep(t)
  \/ FullStart
  \/ FullStep
  \/ PullStart
  \/ PullStep
  \/ retries = <<>> /\ RetryStart
  \/ \E i \in 1..Len(retries) : RetryStep(i)

\* An engine with no Local Sync Record yet, whose remote store holds a row
\* for both paths, on a tree that has the note only
InitStamp ==
  /\ InitDebouncer
  /\ callbacks = <<"engine">>
  /\ InitEngineIdle
  /\ addsLeft = 0
  /\ settings = DefaultSettings
  /\ vault = [p \in Paths |-> IF IsNote(p) THEN 1 ELSE Absent]
  /\ dbNotes = [p \in Paths |-> IF IsNote(p) THEN hashContent(1) ELSE NoHash]
  /\ dbAtts = [p \in Paths |-> IF IsNote(p) THEN NoHash ELSE hashContent(1)]
  /\ files = NoMap
  /\ eventsLeft = StampEvents
  /\ failsLeft = StampFails
  /\ passesLeft = StampStarts
  /\ ticksLeft = StampTicks

SpecStamp == InitStamp /\ [][NextAll]_vars

\* fullReconcile and pullFromDB calls, one after the other or, after a
\* stop(), beside each other, on a tree that does not change
NextRelease ==
  \/ FullStart
  \/ FullStep
  \/ PullStart
  \/ PullStep
  \/ EngineStop

InitRelease ==
  /\ InitDebouncer
  /\ callbacks = <<"engine">>
  /\ InitEngineIdle
  /\ addsLeft = 0
  /\ settings = DefaultSettings
  /\ vault \in [Paths -> {Absent, 2}]
  /\ dbNotes = [p \in Paths |-> IF IsNote(p) THEN hashContent(1) ELSE NoHash]
  /\ dbAtts = [p \in Paths |-> IF IsNote(p) THEN NoHash ELSE hashContent(1)]
  /\ files = NoMap
  /\ eventsLeft = 0
  /\ failsLeft = ReleaseFails
  /\ passesLeft = ReleaseStarts
  /\ ticksLeft = 0

SpecRelease == InitRelease /\ [][NextRelease]_vars

\* A StateTracker of its own, created for the tree VaultPath, and the text
\* the host holds for it: the store is written, serialized, marked saved and
\* loaded in any order
NextStore ==
  \/ \E p \in Paths, h \in Hashes, ts \in Times, tm \in Times :
       StoreSetFileState(p, h, ts, tm)
  \/ \E p \in Paths : StoreRemoveFileState(p)
  \/ \E t \in Times : StoreSetLastFullSync(t)
  \/ StoreClear
  \/ StoreMarkSaved
  \/ StoreSerialize
  \/ StoreLoad(blob)

\* The same with texts that serialize did not write
NextLoad ==
  \/ NextStore
  \/ \E b \in Damaged(blob) : StoreLoad(b)

NextPlugin ==
  \/ PluginConnect
  \/ PluginPool
  \/ PluginConnected
  \/ PluginEngine
  \/ PluginConnectFail
  \/ PluginReconnect
  \/ PluginSyncNow
  \/ PluginPullFromDB
  \/ \E ok \in BOOLEAN : PluginRunMigrations(ok)

\* nothing of the engine, the coalescer or the vault in use
InitQuiet ==
  /\ InitDebouncer
  /\ callbacks = <<>>
  /\ addsLeft = 0
  /\ settings = DefaultSettings
  /\ retries = <<>>
  /\ failedKind = [p \in Paths |-> "none"]
  /\ retryQueue = [p \in Paths |-> NoRetry]
  /\ isRunning = FALSE
  /\ tasks = {}
  /\ passes = <<>>
  /\ landSeq = [p \in Paths |-> 0]
  /\ recSeq = [p \in Paths |-> 0]
  /\ okSince = [p \in Paths |-> NoHash]
  /\ vault = [p \in Paths |-> Absent]
  /\ dbNotes = NoMap
  /\ dbAtts = NoMap
  /\ eventsLeft = 0
  /\ failsLeft = 0
  /\ passesLeft = 0
  /\ ticksLeft = 0
  /\ timers = NoTimers
  /\ files = NoMap
  /\ stamps = NoStamps
  /\ lastFullSync = 0
  /\ dirty = FALSE
  /\ blob = NoBlob

\* the lists of at most MaxTags labels
TagLists == UNION {[1..n -> Labels] : n \in 0..MaxTags}

\* mergeTags is about to be called on any two lists of labels
InitMerge ==
  /\ InitQuiet
  /\ plugin = NoPlugin
  /\ opsLeft = 0
  /\ \E m \in TagLists, i \in TagLists :
       tagRun = [meta |-> m, inline |-> i, out |-> <<>>, done |-> FALSE]

NextMerge == MergeTags

SpecMerge == InitMerge /\ [][NextMerge]_vars

InitStore == InitQuiet /\ plugin = NoPlugin /\ tagRun = NoMerge /\ opsLeft = StoreOps
InitPlugin == InitQuiet /\ plugin = NoPlugin /\ tagRun = NoMerge /\ opsLeft = PluginOps

SpecStore == InitStore /\ [][NextStore]_vars
SpecLoad == InitStore /\ [][NextLoad]_vars
SpecPlugin == InitPlugin /\ [][NextPlugin]_vars

(***************************************************************************)
(* ObsyncPgPlugin.saveState while the engine's syncs write the store        *)
(***************************************************************************)
\* a step of saveState: everything but the store, the text and the call
SaveStep ==
  /\ UNCHANGED <<vault, dbNotes, dbAtts, retryQueue, isRunning, tasks, passes,
                 eventsLeft, failsLeft, passesLeft, landSeq, recSeq, okSince>>
  /\ UNCHANGED <<events, stopped, callbacks, burst, emitted, received, addsLeft, thrown>>
  /\ UNCHANGED <<settings, retries, ticksLeft, failedKind, tagRun, timers>>
  /\ UNCHANGED <<files, stamps, lastFullSync>>

\* the save interval fires: if (engine.needsSave()) saveState(), up to its
\* await of loadData
SaveStateStart ==
  /\ SaveStep
  /\ opsLeft > 0
  /\ opsLeft' = opsLeft - 1
  /\ plugin.engine
  /\ plugin.save.pc = "idle"
  /\ dirty
  /\ plugin' = [plugin EXCEPT !.save.pc = "loadData"]
  /\ UNCHANGED <<dirty, blob>>

\* saveState resumes: data.syncState = engine.serializeState(), up to its
\* await of saveData(data)
SaveStateSerialize ==
  /\ SaveStep
  /\ plugin.save.pc = "loadData"
  /\ plugin' = [plugin EXCEPT !.save = [pc |-> "saveData", data |-> serialize]]
  /\ UNCHANGED <<dirty, blob, opsLeft>>

\* saveData has written the text; saveState resumes: engine.markSaved()
SaveStateDone ==
  /\ SaveStep
  /\ plugin.save.pc = "saveData"
  /\ blob' = plugin.save.data
  /\ dirty' = FALSE
  /\ plugin' = [plugin EXCEPT !.save = NoSave]
  /\ UNCHANGED opsLeft

\* The engine's writes of the store (the setFileState and removeFileState of
\* a sync, the setLastFullSync of a reconciliation) and the saves of the
\* plugin, in any order
NextSave ==
  \/ \E p \in Paths, h \in Hashes, t \in Times : StoreSetFileState(p, h, t, t)
  \/ \E p \in Paths : StoreRemoveFileState(p)
  \/ \E t \in Times : StoreSetLastFullSync(t)
  \/ SaveStateStart
  \/ SaveStateSerialize
  \/ SaveStateDone

\* the plugin after connect(): the database tested, the engine created and
\* started, the save interval set
Connected == [NoPlugin EXCEPT !.db = "connected", !.engine = TRUE]

InitSave == InitQuiet /\ plugin = Connected /\ tagRun = NoMerge /\ opsLeft = SaveOps

SpecSave == InitSave /\ [][NextSave]_vars

(***************************************************************************)
(* ObsyncPgPlugin.onunload                                                 *)
(***************************************************************************)
\* the paths with a pending event
Pending == {p \in Paths : events[p] # NoEvent}

\* what no step of onunload changes
UnloadStep ==
  /\ UNCHANGED <<vault, dbNotes, dbAtts, files, lastFullSync, retryQueue, passes,
                 eventsLeft, failsLeft, passesLeft, landSeq, recSeq, okSince>>
  /\ UNCHANGED <<settings, retries, ticksLeft, failedKind, stamps, opsLeft, tagRun,
                 timers>>

\* onunload() up to its first await: the intervals are cleared,
\* engine.flush() emits the pending events (each handleFileEvent call runs
\* up to its first await); then, if engine.needsSave(), saveState() up to
\* its await of loadData, else engine.stop() and db.close() up to its await
\* of pool.end()
Unload ==
  /\ UnloadStep
  /\ plugin.engine
  /\ plugin.called # "onunload"
  /\ plugin.save.pc = "idle"
  /\ Emit(Pending)
  /\ stopped' = ~dirty
  /\ isRunning' = (dirty /\ isRunning)
  /\ plugin' = [plugin EXCEPT !.called = "onunload",
                               !.flushed = Pending,
                               !.save.pc = IF dirty THEN "loadData" ELSE "idle",
                               !.db = IF dirty THEN @ ELSE "closing"]
  /\ UNCHANGED <<callbacks, addsLeft, dirty, blob>>

\* onunload() resumes after saveState: engine.stop(), db.close() up to its
\* await of pool.end()
UnloadStop ==
  /\ UnloadStep
  /\ plugin.called = "onunload"
  /\ plugin.save.pc = "idle"
  /\ plugin.db = "connected"
  /\ DebouncerStop
  /\ isRunning' = FALSE
  /\ plugin' = [plugin EXCEPT !.db = "closing"]
  /\ UNCHANGED <<tasks, dirty, blob>>

\* pool.end() returns: this.pool = null
UnloadClosed ==
  /\ UnloadStep
  /\ plugin.db = "closing"
  /\ plugin' = [plugin EXCEPT !.db = "null"]
  /\ UNCHANGED <<tasks, dirty, blob, isRunning>>
  /\ UNCHANGED coalescerVars

\* the call t would make its upsert after db.close() was called
CallAfterClose(t) ==
  /\ plugin.db # "connected"
  /\ t.op.pc = "read"
  /\ vault[t.op.path] # Absent
  /\ ReadOutcome(t.op).pc = "upsert"

\* the remote call of t was in flight when db.close() was called
InFlightAtClose(t) == plugin.db # "connected" /\ t.op.pc \in {"upsert", "delete"}

\* A remote call on the closed pool rejects (the pool is ending or null):
\* one made after db.close() always, one in flight at that moment possibly.
\* handleFileEvent's catch block puts the path in the retry queue.
TaskClosed(t) ==
  /\ t \in tasks
  /\ CallAfterClose(t) \/ InFlightAtClose(t)
  /\ tasks' = tasks \ {t}
  /\ retryQueue' = RetryOnThrow(t.op.path)
  /\ failedKind' = [failedKind EXCEPT ![t.op.path] = FailedSync(t.op)]
  /\ UNCHANGED <<vault, dbNotes, dbAtts, files, lastFullSync, dirty, isRunning,
                 passes, eventsLeft, failsLeft, passesLeft, landSeq, recSeq, okSince>>
  /\ UNCHANGED coalescerVars
  /\ UNCHANGED runVars

\* a resumption of the handleFileEvent call t that makes no remote call on
\* a closed pool
UnloadTaskStep(t) == ~CallAfterClose(t) /\ TaskStep(t)

\* An engine whose plugin is unloaded at any moment, on a tree that changes
NextUnload ==
  \/ \E p \in Paths, c \in Contents : HostCreate(p, c)
  \/ \E p \in Paths, c \in Contents : HostModify(p, c)
  \/ \E p \in Paths : HostDelete(p)
  \/ \E p \in Paths : TimerFire(p)
  \/ \E t \in tasks : UnloadTaskStep(t)
  \/ \E t \in tasks : TaskClosed(t)
  \/ Unload
  \/ SaveStateSerialize
  \/ SaveStateDone
  \/ UnloadStop
  \/ UnloadClosed

\* the plugin after connect() on an empty tree with an empty remote store
InitUnload ==
  /\ InitDebouncer
  /\ callbacks = <<"engine">>
  /\ addsLeft = 0
  /\ settings = DefaultSettings
  /\ stamps = NoStamps
  /\ blob = NoBlob
  /\ opsLeft = 0
  /\ tagRun = NoMerge
  /\ timers = NoTimers
  /\ plugin = Connected
  /\ retries = <<>>
  /\ failedKind = [p \in Paths |-> "none"]
  /\ retryQueue = [p \in Paths |-> NoRetry]
  /\ isRunning = FALSE
  /\ tasks = {}
  /\ passes = <<>>
  /\ lastFullSync = 0
  /\ dirty = FALSE
  /\ landSeq = [p \in Paths |-> 0]
  /\ recSeq = [p \in Paths |-> 0]
  /\ okSince = [p \in Paths |-> NoHash]
  /\ vault = [p \in Paths |-> Absent]
  /\ dbNotes = NoMap
  /\ dbAtts = NoMap
  /\ files = NoMap
  /\ eventsLeft = UnloadEvents
  /\ failsLeft = 0
  /\ passesLeft = 0
  /\ ticksLeft = 0

SpecUnload == InitUnload /\ [][NextUnload]_vars

(***************************************************************************)
(* Properties                                                              *)
(***************************************************************************)
Last(seq) == seq[Len(seq)]

\* the handleFileEvent call t is resumed in this step
Stepped(t) == t \in tasks /\ t \notin tasks'

\* the reconciliation call in slot i is over after this step
PassEnds(i) == i \in 1..Len(passes) /\ passes' = RemoveAt(passes, i)

\* C1: at most one reconciliation pass (fullReconcile or pullFromDB) of an
\* engine is in progress at any time.
C1_AtMostOnePass == Len(passes) <= 1

\* C2: for each path, the remote writes and the Local Sync Record updates of
\* the coalesced events are applied in the order the events were emitted.
C2_EmissionOrder ==
  [][\A p \in Paths : landSeq'[p] >= landSeq[p] /\ recSeq'[p] >= recSeq[p]]_vars

\* the pending entry of p is emitted in this step (timer expiry or flush)
Emits(p) == events[p] # NoEvent /\ events'[p] = NoEvent /\ ~stopped'

\* C3: a burst of adds for a path yields exactly one emitted event, which
\* every registered listener receives exactly once; Create then Modify
\* emits Create, Modify then Delete emits Delete; nothing is emitted or
\* received for a path at any other moment.
C3_OneEmissionPerBurst ==
  [][\A p \in Paths :
       IF Emits(p)
       THEN /\ Len(emitted'[p]) = Len(emitted[p]) + 1
            /\ SubSeq(emitted'[p], 1, Len(emitted[p])) = emitted[p]
            /\ Last(emitted'[p]).burst = burst[p]
            /\ \A l \in 1..Len(callbacks) :
                 received'[l][p] = Append(received[l][p], Last(emitted'[p]).kind)
            /\ (burst[p] = <<"CREATE", "MODIFY">> => Last(emitted'[p]).kind = "CREATE")
            /\ (burst[p] = <<"MODIFY", "DELETE">> => Last(emitted'[p]).kind = "DELETE")
       ELSE /\ emitted'[p] = emitted[p]
            /\ \A l \in 1..MaxListeners : received'[l][p] = received[l][p]]_vars

\* a Create-Modify burst was emitted as one Create to two listeners, while
\* another path has its own pending entry
C3_Witness ==
  /\ Len(callbacks) = 2
  /\ Len(emitted[NotePath]) = 1
  /\ emitted[NotePath][1] = [kind |-> "CREATE", burst |-> <<"CREATE", "MODIFY">>]
  /\ received[1][NotePath] = <<"CREATE">>
  /\ received[2][NotePath] = <<"CREATE">>
  /\ addsLeft = 0
  /\ events[AttPath] # NoEvent

\* the merge rule as the claim states it
ClaimedKind(old, new) ==
  IF new = "DELETE" \/ old = "DELETE" THEN "DELETE"
  ELSE IF old = "CREATE" /\ new = "MODIFY" THEN "CREATE"
  ELSE new

\* C4: add(p, new) on a pending entry of kind old leaves kind Delete if new
\* or old is Delete, Create if old is Create and new is Modify, else new; a
\* pending Delete stays Delete under every later add.
C4_MergeRule ==
  [][\A p \in Paths :
       (events[p] # NoEvent /\ Len(burst'[p]) = Len(burst[p]) + 1)
         => /\ events'[p] = ClaimedKind(events[p], Last(burst'[p]))
            /\ (events[p] = "DELETE" => events'[p] = "DELETE")]_vars

\* a pending Delete that took two later adds
C4_Witness ==
  /\ events[NotePath] = "DELETE"
  /\ Len(burst[NotePath]) = 3
  /\ burst[NotePath][1] = "DELETE"
  /\ burst[NotePath][3] # "DELETE"

\* C5: an incremental sync of a path whose content is what the previous
\* incremental sync of that path found or recorded, run after that one
\* returned, returns after its read with no remote write and no change of
\* the Local Sync Record.
C5_SecondSyncIsNoOp ==
  [][\A t \in tasks :
       (/\ Stepped(t)
        /\ t.op.pc = "read"
        /\ vault[t.op.path] # Absent
        /\ okSince[t.op.path] = hashContent(vault[t.op.path]))
         => /\ \A u \in tasks' : u.op.path # t.op.path
            /\ UNCHANGED <<dbNotes, dbAtts, files, retryQueue>>]_vars

\* two syncs of the note were emitted and have returned; the first one
\* upserted and recorded, the second one wrote nothing
C5_Witness ==
  /\ Len(emitted[NotePath]) = 2
  /\ \A k \in 1..2 : emitted[NotePath][k].kind # "DELETE"
  /\ tasks = {}
  /\ landSeq[NotePath] = 1
  /\ recSeq[NotePath] = 1
  /\ vault[NotePath] # Absent
  /\ okSince[NotePath] = hashContent(vault[NotePath])
  /\ dbNotes[NotePath] = hashContent(vault[NotePath])

\* C6: when the remote upsert of an incremental sync fails, the sync has
\* not changed the Local Sync Record of the path, and the failure handler
\* leaves a Retry Entry with attempt count 0.
C6_FailedUpsert ==
  [][\A t \in tasks :
       /\ (Stepped(t) /\ t.op.pc \in {"stat", "read", "upsert"}) => files' = files
       /\ (Stepped(t) /\ t.op.pc = "upsert" /\ failsLeft' # failsLeft)
            => /\ retryQueue'[t.op.path] = 0
               /\ \A u \in tasks' : u.seq # t.seq \/ u.op.path # t.op.path]_vars

\* the upsert of a changed note failed: its old record is kept and it is
\* queued for retry
C6_Witness ==
  /\ failsLeft < SyncFails
  /\ retryQueue[NotePath] = 0
  /\ files[NotePath] # NoHash
  /\ vault[NotePath] # Absent
  /\ files[NotePath] # hashContent(vault[NotePath])
  /\ dbNotes[NotePath] # hashContent(vault[NotePath])
  /\ tasks = {}

PostPush == {"delNotes", "delNotesDone", "delAtts", "delAttsDone", "status"}
PostCompare == {"push"} \cup PostPush

\* C7: the push set of fullReconcile is the local files whose digest differs
\* from the remote digest or that have no remote row, and the delete set is
\* the remote paths that are not local.
C7_PushAndDeleteSets ==
  \A i \in 1..Len(passes) :
    LET r == passes[i]
        L == Range(r.localFiles)
    IN (r.kind = "full" /\ r.pc \in PostCompare)
         => /\ Range(r.toSync) =
                 {p \in L : r.dbHashes[p] = NoHash \/ r.localHash[p] # r.dbHashes[p]}
            /\ Len(r.toSync) = Cardinality(Range(r.toSync))
            /\ r.toDelete = {p \in Paths : r.dbHashes[p] # NoHash} \ L

\* a pass with a file to push whose remote digest differs, and a row to delete
C7_Witness ==
  \E i \in 1..Len(passes) :
    /\ passes[i].pc = "push"
    /\ Len(passes[i].toSync) = 1
    /\ passes[i].dbHashes[passes[i].toSync[1]] # NoHash
    /\ passes[i].toDelete # {}

\* C8: when a fullReconcile pass completes, every path of its push set was
\* upserted during the pass, or is in the retry map, or is an oversize
\* attachment.
C8_PushSetIsPushed ==
  \A i \in 1..Len(passes) :
    LET r == passes[i]
    IN (r.kind = "full" /\ r.pc = "status")
         => \A p \in Range(r.toSync) :
              \/ p \in r.pushed
              \/ retryQueue[p] # NoRetry
              \/ (~IsNote(p) /\ StatSize(p) > maxBinarySizeMB)

\* C9: a sync that throws in the push phase does not stop the pass: the pass
\* never ends inside the push phase, the failing path gets a Retry Entry
\* with count 0, every path of the push set is attempted before the deletes,
\* and a pass that gets through its batched deletes has applied them and
\* sets the last-full-sync timestamp.
C9_PushFailureIsolated ==
  [][\A i \in 1..Len(passes) :
       LET r == passes[i]
       IN /\ (r.pc = "push" /\ passes' # passes) => Len(passes') = Len(passes)
          /\ (Len(passes') = Len(passes) /\ passes'[i].threw # r.threw)
               => /\ retryQueue'[r.op.path] = 0
                  /\ passes'[i].threw = r.threw \cup {r.op.path}
          /\ r.pc \in PostPush => r.attempted = Range(r.toSync)
          /\ r.pc = "status" => r.batched = r.toDelete
          /\ (Len(passes') = Len(passes) /\ r.pc # "status"
                /\ passes'[i].pc = "status") => lastFullSync' # lastFullSync
          /\ (PassEnds(i) /\ r.kind = "full" /\ r.threw # {})
               => r.pc \in {"delNotes", "delAtts", "status"}]_vars

\* the sync of the note threw, the attachment was pushed all the same and
\* the pass completed
C9_Witness ==
  \E i \in 1..Len(passes) :
    /\ passes[i].pc = "status"
    /\ passes[i].toSync = <<NotePath, AttPath>>
    /\ passes[i].threw = {NotePath}
    /\ passes[i].pushed = {AttPath}
    /\ retryQueue[NotePath] = 0
    /\ lastFullSync = 1

\* the retryFailed call in slot i is attempting path p
Attempting(i, p) == retries[i].pc = "attempt" /\ retries[i].op.path = p

\* C11: a Retry Entry never exceeds the ceiling, and it has reached the
\* ceiling only while the attempt that raised it there is in flight: once
\* that attempt has failed the entry is gone.
C11_RetryCeiling ==
  \A p \in Paths :
    retryQueue[p] # NoRetry
      => /\ retryQueue[p] <= settings.retryAttempts
         /\ (retryQueue[p] >= settings.retryAttempts
               => \E i \in 1..Len(retries) : Attempting(i, p))

\* C12: when retryFailed removes an entry that is below the ceiling and
\* that a failed remote delete had made, the remote store holds no row of
\* the path: the delete was issued again and succeeded.
C12_RetryRerunsFailedSync ==
  [][\A p \in Paths :
       (/\ retryQueue[p] # NoRetry
        /\ retryQueue[p] < settings.retryAttempts
        /\ retryQueue'[p] = NoRetry
        /\ failedKind[p] = "delete")
         => dbNotes'[p] = NoHash /\ dbAtts'[p] = NoHash]_vars

\* C13: no two retryFailed calls are attempting the same path at once.
C13_RetryAttemptsSequential ==
  \A i, j \in 1..Len(retries), p \in Paths :
    (Attempting(i, p) /\ Attempting(j, p)) => i = j

\* C10: a failure on one object in the compare loop of fullReconcile or in
\* the loops of pullFromDB leaves at most that object unprocessed when the
\* call is over.
C10_BatchIsolation ==
  [][\A i \in 1..Len(passes) :
       LET r == passes[i]
           batch == IF r.kind = "full" THEN Range(r.localFiles)
                    ELSE {r.rows[k].path : k \in 1..Len(r.rows)}
       IN (PassEnds(i) /\ r.pc \in {"cmp", "pullRead", "pullWrite"})
            => Cardinality(batch \ r.handled) <= 1]_vars

\* C14: a path that matches an ignore pattern is excluded from every
\* operation: it never has a pending event, no syncFile call, no push of
\* fullReconcile and no attempt of retryFailed is ever in flight for it, and
\* its local file changes only by the host's doing (pullFromDB never writes
\* it).
C14_IgnoredPathExcluded ==
  [][\A p \in Paths :
       shouldIgnore(p)
         => /\ events'[p] = NoEvent
            /\ \A t \in tasks' : t.op.path # p
            /\ \A i \in 1..Len(passes') :
                 passes'[i].pc = "push" => passes'[i].op.path # p
            /\ \A i \in 1..Len(retries') : retries'[i].op.path # p
            /\ (vault'[p] # vault[p] => eventsLeft' # eventsLeft)]_vars

\* the remote tables after the row of p is deleted from the table its
\* suffix names
RowDeleted(p) ==
  IF p[2] = "md"
  THEN dbNotes' = [dbNotes EXCEPT ![p] = NoHash] /\ dbAtts' = dbAtts
  ELSE dbAtts' = [dbAtts EXCEPT ![p] = NoHash] /\ dbNotes' = dbNotes

\* C15: syncFile(p, Delete) deletes the row of p from the table chosen by
\* the suffix of p and only after that drops the Local Sync Record of p; when
\* the remote delete fails the call is over with the record unchanged; and
\* no other step of an incremental sync drops a record.
C15_DeleteThenDropRecord ==
  [][/\ \A t \in tasks :
          /\ (Stepped(t) /\ t.op.pc = "delete")
               => /\ files' = files
                  /\ IF failsLeft' # failsLeft
                     THEN /\ UNCHANGED <<dbNotes, dbAtts>>
                          /\ \A u \in tasks' : u.seq # t.seq \/ u.op.path # t.op.path
                     ELSE RowDeleted(t.op.path)
          /\ (Stepped(t) /\ t.op.pc = "deleted")
               => /\ files' = [files EXCEPT ![t.op.path] = NoHash]
                  /\ UNCHANGED <<dbNotes, dbAtts>>
     /\ \A p \in Paths :
          (files[p] # NoHash /\ files'[p] = NoHash)
            => \E t \in tasks : Stepped(t) /\ t.op.pc = "deleted" /\ t.op.path = p]_vars

\* the delete of the note failed and its record is kept; the delete of the
\* attachment went through, from the attachment table, and its record is
\* dropped
C15_Witness ==
  /\ tasks = {}
  /\ vault = [p \in Paths |-> Absent]
  /\ failedKind[NotePath] = "delete"
  /\ retryQueue[NotePath] = 0
  /\ files[NotePath] # NoHash
  /\ dbNotes[NotePath] # NoHash
  /\ Len(emitted[AttPath]) = 1
  /\ emitted[AttPath][1].kind = "DELETE"
  /\ recSeq[AttPath] = 1
  /\ files[AttPath] = NoHash
  /\ dbAtts[AttPath] = NoHash

\* C16: pullFromDB writes nothing for a row whose local file exists with
\* the row's digest: the read changes no file and the loop goes to the next
\* row; a row whose local file differs or is missing is written; and no
\* local file changes during a pull except by such a write or by the host.
C16_PullSkipsEqualDigest ==
  [][/\ \A i \in 1..Len(passes) :
          LET r == passes[i]
              over == Len(passes') < Len(passes)
          IN (r.kind = "pull" /\ passes' # passes /\ Len(passes') <= Len(passes))
               => /\ r.pc = "pullRead"
                       => LET row == r.rows[r.idx]
                          IN /\ vault' = vault
                             /\ (vault[row.path] # Absent
                                   /\ hashContent(vault[row.path]) = row.hash)
                                  => \/ over
                                     \/ /\ passes'[i].idx = r.idx + 1
                                        /\ passes'[i].pushed = r.pushed
                             /\ (vault[row.path] # Absent
                                   /\ hashContent(vault[row.path]) # row.hash)
                                  => /\ ~over
                                     /\ passes'[i].pc = "pullWrite"
                                     /\ passes'[i].idx = r.idx
                  /\ (r.pc = "pullWrite" /\ failsLeft' = failsLeft)
                       => LET row == r.rows[r.idx]
                          IN vault' = [vault EXCEPT ![row.path] = RawContent(row.hash)]
                  /\ (~over /\ passes'[i].idx # r.idx)
                       => LET next == passes'[i].rows[passes'[i].idx]
                          IN passes'[i].pc = IF vault'[next.path] = Absent
                                             THEN "pullWrite" ELSE "pullRead"
     /\ \A p \in Paths :
          (vault'[p] # vault[p] /\ eventsLeft' = eventsLeft)
            => \E i \in 1..Len(passes) :
                 /\ passes[i].pc = "pullWrite"
                 /\ passes[i].rows[passes[i].idx].path = p]_vars

\* a pull skipped the row of the note, whose local file has the row's
\* digest, and is about to write the attachment, whose local file differs
C16_Witness ==
  \E i \in 1..Len(passes) :
    /\ passes[i].kind = "pull"
    /\ passes[i].pc = "pullWrite"
    /\ passes[i].idx = 2
    /\ passes[i].handled = {NotePath}
    /\ passes[i].pushed = {}
    /\ hashContent(vault[NotePath]) = dbNotes[NotePath]
    /\ vault[AttPath] # Absent

\* C17: pullFromDB never deletes a local file: a file leaves the local tree
\* only by the host's doing, whether or not the path has a remote row.
C17_PullNeverDeletesLocal ==
  [][\A p \in Paths :
       (vault[p] # Absent /\ vault'[p] = Absent) => eventsLeft' # eventsLeft]_vars

\* a pull ran to its end with no failure on a tree the host left alone: the
\* attachment, which has no remote row, is still there
C17_Witness ==
  /\ passesLeft = 0
  /\ passes = <<>>
  /\ ~isRunning
  /\ eventsLeft = PullEvents
  /\ failsLeft = PullFails
  /\ vault[AttPath] # Absent
  /\ dbAtts[AttPath] = NoHash
  /\ dbNotes[NotePath] # NoHash
  /\ vault[NotePath] = RawContent(dbNotes[NotePath])

\* the size in MB of the attachment stored in the remote row with hash h
RowSize(h) == RawContent(h) * maxBinarySizeMB

\* C18: an attachment over the size limit is never upserted and never gets
\* a Local Sync Record: no row of the attachment table and no record of an
\* attachment holds content larger than the limit.
C18_OversizeNeverUpserted ==
  \A p \in Paths :
    ~IsNote(p)
      => /\ (dbAtts[p] # NoHash => RowSize(dbAtts[p]) <= maxBinarySizeMB)
         /\ (files[p] # NoHash => RowSize(files[p]) <= maxBinarySizeMB)

\* C19: the last-full-sync timestamp changes only in the step in which a
\* fullReconcile call gets past its push loop and its batched deletes: the
\* call has attempted every path of its push set and applied every batched
\* delete, and only updateStatus and the finally block remain.  No step of
\* an aborting pass, of syncFile, of pullFromDB or of retryFailed changes it.
C19_LastFullSyncOnlyAtEnd ==
  [][lastFullSync' # lastFullSync
       => \E i \in 1..Len(passes) :
            /\ passes[i].kind = "full"
            /\ passes[i].pc # "status"
            /\ Len(passes') = Len(passes)
            /\ passes'[i].pc = "status"
            /\ passes'[i].attempted = Range(passes'[i].toSync)
            /\ passes'[i].batched = passes'[i].toDelete
            /\ lastFullSync' = lastFullSync + 1]_vars

\* a pass that pushed a file and applied a batched delete has set the
\* timestamp, after another operation had failed and left a Retry Entry
C19_Witness ==
  \E i \in 1..Len(passes) :
    /\ passes[i].pc = "status"
    /\ passes[i].pushed # {}
    /\ passes[i].batched # {}
    /\ lastFullSync = 1
    /\ failsLeft < StampFails

\* C20: once stop() was called the coalescer stays stopped with no pending
\* entry (so no armed timer), and neither stop() itself nor any later step
\* (add, flush, timer) emits anything or invokes a listener.
C20_NothingAfterStop ==
  [][/\ stopped => stopped'
     /\ stopped' => \A p \in Paths : events'[p] = NoEvent
     /\ (stopped \/ stopped') => (emitted' = emitted /\ received' = received)]_vars

\* a stopped coalescer with registered listeners: every add was made,
\* before stop() (its entry was discarded) or after it (it was ignored), and
\* nothing was ever emitted
C20_Witness ==
  /\ stopped
  /\ Len(callbacks) = MaxListeners
  /\ addsLeft = 0
  /\ \A p \in Paths : emitted[p] = <<>>
  /\ \A l \in 1..MaxListeners, p \in Paths : received[l][p] = <<>>

\* C21: a flush() step emits every entry that was pending, each once and
\* with its coalesced kind, to every listener, and leaves no pending entry
\* (so no armed timer that could emit one of them again); paths with no
\* pending entry get nothing.
C21_FlushEmitsAllPending ==
  [][(addsLeft' = addsLeft /\ stopped' = stopped /\ callbacks' = callbacks /\ Flush)
       => /\ \A p \in Paths : events'[p] = NoEvent
          /\ \A p \in Paths :
               IF events[p] # NoEvent
               THEN /\ emitted'[p] =
                         Append(emitted[p], [kind |-> events[p], burst |-> burst[p]])
                    /\ \A l \in 1..Len(callbacks) :
                         received'[l][p] = Append(received[l][p], events[p])
               ELSE /\ emitted'[p] = emitted[p]
                    /\ \A l \in 1..MaxListeners : received'[l][p] = received[l][p]]_vars

\* both paths had a pending entry, a Create-Modify burst and a Delete, and
\* both were emitted once, with no timer left: the state after a flush()
C21_Witness ==
  /\ ~stopped
  /\ Len(callbacks) >= 1
  /\ addsLeft = 0
  /\ emitted[NotePath] = <<[kind |-> "CREATE", burst |-> <<"CREATE", "MODIFY">>]>>
  /\ emitted[AttPath] = <<[kind |-> "DELETE", burst |-> <<"DELETE">>]>>
  /\ received[1] = [p \in Paths |-> IF p = NotePath THEN <<"CREATE">> ELSE <<"DELETE">>]
  /\ \A p \in Paths : events[p] = NoEvent

\* C22: an emission invokes every registered listener with the event,
\* whichever listeners throw, and removes the pending entry; the step is an
\* ordinary step of the coalescer (nothing propagates out of it).
C22_ListenerThrowIsolated ==
  [][\A p \in Paths :
       Emits(p)
         => /\ events'[p] = NoEvent
            /\ \A l \in 1..Len(callbacks) :
                 /\ Len(received'[l][p]) = Len(received[l][p]) + 1
                 /\ Last(received'[l][p]) = events[p]
            /\ stopped' = stopped /\ callbacks' = callbacks]_vars

\* the first listener threw in an emission, and the second listener was
\* invoked with every event all the same
C22_Witness ==
  /\ Len(callbacks) = 2
  /\ 1 \in thrown
  /\ \E p \in Paths :
       /\ Len(emitted[p]) >= 1
       /\ Len(received[2][p]) = Len(emitted[p])
       /\ Len(received[1][p]) = Len(emitted[p])
       /\ events[p] = NoEvent
  /\ \A p \in Paths : Len(received[2][p]) = Len(emitted[p])


C24_LoadAllOrNothing ==
  [][\A b \in Damaged(blob) :
       StoreLoad(b) => UNCHANGED <<files, stamps, lastFullSync>>]_vars

\* C25: the dirty flag is true after every setFileState, removeFileState,
\* setLastFullSync and clear, and once true it stays true until markSaved:
\* a step that clears it is a markSaved step, so neither serialize nor load
\* clears it.
C25_DirtyUntilMarkSaved ==
  [][/\ (\/ \E p \in Paths, h \in Hashes, ts \in Times, tm \in Times :
              StoreSetFileState(p, h, ts, tm)
         \/ \E p \in Paths : StoreRemoveFileState(p)
         \/ \E t \in Times : StoreSetLastFullSync(t)
         \/ StoreClear) => dirty'
     /\ (dirty /\ ~dirty') => StoreMarkSaved
     /\ (StoreSerialize \/ StoreLoad(blob)) => dirty' = dirty]_vars

\* the store was written, marked saved, written again and then serialized:
\* it is dirty after the serialize
C25_Witness ==
  /\ opsLeft = 0
  /\ dirty
  /\ blob = serialize
  /\ files[NotePath] # NoHash
  /\ lastFullSync # 0

\* The store that load builds, in a fresh StateTracker of the same tree,
\* from the text serialize gives for the present store
RoundTrip ==
  [files |-> LoadedFiles(serialize), stamps |-> LoadedStamps(serialize),
   lastFullSync |-> LoadedSync(serialize)]

C27_NotConnectedReported ==
  [][(/\ ~plugin.engine
      /\ ~plugin.busy
      /\ plugin.db # "connected"
      /\ (PluginSyncNow \/ PluginPullFromDB \/ \E ok \in BOOLEAN : PluginRunMigrations(ok)))
       => /\ plugin'.notice \in {"Not connected to database",
                                 "Migration failed - Database not connected"}
          /\ ~plugin'.remote
          /\ plugin'.db = plugin.db /\ plugin'.engine = plugin.engine]_vars

\* The lower-cased and trimmed form of a label, stated on its characters:
\* the letters in lower case, from the first to the last character that is
\* not white space
Folded(tag) ==
  LET low == [i \in 1..Len(tag) |-> IF tag[i] = "P" THEN "p" ELSE tag[i]]
      ink == {i \in 1..Len(tag) : tag[i] # " "}
  IN IF ink = {} THEN <<>>
     ELSE SubSeq(low, CHOOSE a \in ink : \A b \in ink : a <= b,
                      CHOOSE a \in ink : \A b \in ink : a >= b)

\* C28: mergeTags(meta, inline) returns the lower-cased and trimmed labels of
\* meta followed by those of inline, with empty labels dropped and each
\* normalized label exactly once, at the position of its first occurrence;
\* merge([Project, idea], [idea, todo]) = [project, idea, todo].
C28_MergeTagsFirstOccurrence ==
  tagRun.done =>
    LET all == tagRun.meta \o tagRun.inline
        out == tagRun.out
        first == {i \in 1..Len(all) :
                    /\ Folded(all[i]) # <<>>
                    /\ \A j \in 1..(i - 1) : Folded(all[j]) # Folded(all[i])}
        at(k) == CHOOSE i \in first : Cardinality({j \in first : j < i}) = k - 1
    IN /\ Len(out) = Cardinality(first)
       /\ \A k \in 1..Len(out) : out[k] = Folded(all[at(k)])
       /\ \A k, l \in 1..Len(out) : out[k] = out[l] => k = l
       /\ (tagRun.meta = << <<"P">>, <<" ", "i">> >> /\ tagRun.inline = << <<"i", " ">>, <<"t">> >>)
            => out = << <<"p">>, <<"i">>, <<"t">> >>

\* mergeTags was called on [P, " i"] and ["i ", t] and returned [p, i, t]
C28_Witness ==
  /\ tagRun.done
  /\ tagRun.meta = << <<"P">>, <<" ", "i">> >>
  /\ tagRun.inline = << <<"i", " ">>, <<"t">> >>
  /\ tagRun.out = << <<"p">>, <<"i">>, <<"t">> >>

\* the file operation o is suspended after its upsert of path p with digest
\* d was applied to the remote store
UpsertDone(o, p, d) == o.path = p /\ o.pc = "upserted" /\ o.hash = d

\* C29: a Local Sync Record with digest d is written for path p only by the
\* continuation of a sync whose remote upsert of p with digest d has
\* completed: every step that creates or changes a record is the resumption
\* of a syncFile task, of a push of fullReconcile or of a retry attempt that
\* was suspended after that upsert; steps of a skipped, failed or oversize
\* sync, of a delete and of a pull write no record.
C29_RecordOnlyAfterUpsert ==
  [][\A p \in Paths :
       (files'[p] # files[p] /\ files'[p] # NoHash)
         => \/ \E t \in tasks : UpsertDone(t.op, p, files'[p]) /\ t \notin tasks'
            \/ \E i \in 1..Len(passes) :
                 /\ passes[i].pc = "push"
                 /\ UpsertDone(passes[i].op, p, files'[p])
                 /\ passes'[i] # passes[i]
            \/ \E i \in 1..Len(retries) :
                 /\ UpsertDone(retries[i].op, p, files'[p])
                 /\ retries' # retries]_vars

\* the push of the note by fullReconcile was rejected and left no record;
\* the retry of the note then upserted it and wrote the record with the
\* digest of the remote row
C29_Witness ==
  /\ failsLeft = 0
  /\ ticksLeft = 0
  /\ passesLeft = 0
  /\ files[NotePath] = hashContent(vault[NotePath])
  /\ dbNotes[NotePath] = files[NotePath]
  /\ retryQueue[NotePath] = NoRetry
  /\ failedKind[NotePath] # "none"

\* path p exists locally, is not ignored, and a syncFile started by the
\* coalescer has synced its present content
SyncedLocally(p) ==
  /\ vault[p] # Absent
  /\ ~shouldIgnore(p)
  /\ recSeq[p] > 0
  /\ files[p] = hashContent(vault[p])

\* C30: fullReconcile never batch-deletes the remote row, nor drops the
\* Local Sync Record, of a path that exists locally and is not ignored at
\* the time of the delete, also when the file was created and synced by a
\* coalescer-driven syncFile while the pass was suspended after enumerating
\* the local files.
C30_NoBatchDeleteOfLocalFile ==
  [][\A i \in 1..Len(passes) :
       /\ (FullDelNotesLand(i) \/ FullDelNotesCont(i))
            => \A p \in NotesToDelete(passes[i]) : ~SyncedLocally(p)
       /\ (FullDelAttsLand(i) \/ FullDelAttsCont(i))
            => \A p \in AttachToDelete(passes[i]) : ~SyncedLocally(p)]_vars

\* the digest of the remote row of p, NoHash when there is none
RowHash(p) == IF IsNote(p) THEN dbNotes[p] ELSE dbAtts[p]

\* C31: whenever no engine operation is in flight, a Local Sync Record
\* written by a sync of this engine has a remote row of the same path with
\* the same digest (nothing else writes to the remote store), also after two
\* syncs of the path that overlapped.
C31_RecordHasRow ==
  (tasks = {} /\ passes = <<>> /\ retries = <<>>)
    => \A p \in Paths :
         (files[p] # NoHash /\ recSeq[p] > 0) => RowHash(p) = files[p]

\* C32: a failure is not lost from the retry map: when an incremental sync
\* of p failed and enqueued its entry (count 0) while a retryFailed attempt
\* on p was suspended, the completion of that older attempt does not remove
\* the entry.
C32_NewFailureKept ==
  [][\A i \in 1..Len(retries), p \in Paths :
       (Attempting(i, p) /\ retryQueue[p] = 0 /\ RetryStep(i))
         => retryQueue'[p] # NoRetry]_vars

\* C40: every Retry Entry's attempt count is between 0 and the configured
\* ceiling inclusive, also while retryFailed runs overlap and while new
\* failures reset entries.
C40_RetryCountInRange ==
  \A p \in Paths :
    retryQueue[p] # NoRetry
      => retryQueue[p] \in 0..settings.retryAttempts

\* an attempt of a retryFailed call on the note was suspended when a sync
\* of the edited note failed and reset the entry to 0, with the count 1 the
\* call had set
C40_Witness ==
  /\ retryQueue[NotePath] = 0
  /\ \E i \in 1..Len(retries) :
       /\ Attempting(i, NotePath)
       /\ retries[i].snap[retries[i].idx].count = 0
  /\ failsLeft = 0
  /\ vault[NotePath] = 2

\* C37: when no new failure is enqueued, every Retry Entry is removed after
\* at most ceiling + 1 invocations of retryFailed: once that many calls have
\* been made and have returned, the retry map is empty.
C37_DrainedAfterCeilingPlusOne ==
  (/\ eventsLeft = DrainEvents
   /\ retries = <<>>
   /\ DrainTicks - ticksLeft >= settings.retryAttempts + 1)
    => Entries(retryQueue) = {}

\* C33: whenever no saveState is in flight, a text has been saved and the
\* store reports clean (isDirty() false), the saved text is the serialized
\* state of the store, also when the store was written while a saveState was
\* suspended between serializing and markSaved
C33_CleanMeansSaved ==
  (plugin.save.pc = "idle" /\ blob # NoBlob /\ ~dirty) => blob = serialize

\* C34: once the coalesced event of the last burst of a path has been
\* processed successfully (nothing pending or in flight, its remote write
\* applied and its sync returned), the remote store holds a row for the path
\* exactly when the file exists locally
C34_RowIffFileAfterBurst ==
  \A p \in Paths :
    (/\ tasks = {}
     /\ events[p] = NoEvent
     /\ emitted[p] # <<>>
     /\ landSeq[p] = Len(emitted[p])
     /\ recSeq[p] = Len(emitted[p]))
    => (RowHash(p) # NoHash <=> vault[p] # Absent)

\* C35: whenever a fullReconcile or pullFromDB call that passed the running
\* check is over, after its last step or after a step of it failed, the
\* running flag is false
C35_FlagReleased ==
  [][\A i \in 1..Len(passes) : PassEnds(i) => ~isRunning']_vars

\* a call has ended by a failure of one of its steps without completing a
\* reconciliation, and a later call has been let in
C35_Witness ==
  /\ failsLeft < ReleaseFails
  /\ lastFullSync = 0
  /\ passesLeft = 0
  /\ Len(passes) = 1
  /\ isRunning
  /\ ~stopped

\* a step of a pullFromDB call: the call starts, resumes or ends
PullActs ==
  \/ Len(passes') = Len(passes) + 1 /\ Last(passes').kind = "pull"
  \/ \E i \in 1..Len(passes) :
       /\ passes[i].kind = "pull"
       /\ \/ PassEnds(i)
          \/ Len(passes') = Len(passes) /\ passes'[i] # passes[i]

\* C38: a step of pullFromDB changes no remote row and leaves every Local
\* Sync Record, the last-full-sync time, the dirty flag and the retry map as
\* they were
C38_PullFrame ==
  [][PullActs => UNCHANGED <<dbNotes, dbAtts, files, lastFullSync, dirty, retryQueue>>]_vars

\* a pull has written the attachment (no file event created it) and is
\* over; the attachment has no Local Sync Record
C38_Witness ==
  /\ vault[AttPath] # Absent
  /\ eventsLeft = StampEvents
  /\ passes = <<>>
  /\ passesLeft = 0
  /\ files[AttPath] = NoHash

\* C36: a pending entry of a coalescer that is not stopped is eventually
\* emitted once, and removed by that emission, when the adds for its path
\* cease; and a timer emits an entry only when a full delay has passed since
\* the last add for its path
C36_PendingEventuallyEmitted ==
  /\ \A p \in Paths, n \in 0..TimerAdds :
       (events[p] # NoEvent /\ Len(emitted[p]) = n)
         ~> (stopped \/ (events[p] = NoEvent /\ Len(emitted[p]) = n + 1))
  /\ [][\A p \in Paths : Emits(p) => timers[p].waited = Delay]_vars

\* an entry was emitted that merged two adds: the second one re-armed the
\* timer before it ran out
C36_Witness ==
  /\ ~stopped
  /\ Len(emitted[NotePath]) = 1
  /\ Len(emitted[NotePath][1].burst) = 2
  /\ events[NotePath] = NoEvent
  /\ addsLeft = TimerAdds - 2

\* C39: once onunload has stopped the engine and called db.close(), no sync
\* of a path whose pending event its flush emitted is still in flight, the
\* path is in no retry queue, and the record the sync wrote is in the saved
\* text
C39_FlushedSyncedBeforeClose ==
  (plugin.called = "onunload" /\ plugin.db # "connected") =>
    \A p \in plugin.flushed :
      /\ \A t \in tasks : t.op.path # p
      /\ retryQueue[p] = NoRetry
      /\ files[p] # NoHash => (blob.t = "json" /\ blob.files[p].hash = files[p])
====
